---- MODULE Spec2Model ----
(***************************************************************************)
(* A model of the image -> text-art core of the ASCII / ANSI art           *)
(* generator: src/src/lib/ascii-converter.ts and src/src/lib/dithering.ts. *)
(*                                                                         *)
(* Numbers.  A JavaScript number is a pair <<n, d>>: a finite value is the *)
(* reduced fraction n/d with d > 0; <<0,0>> is NaN, <<1,0>> is +Infinity   *)
(* and <<-1,0>> is -Infinity.  Finite arithmetic is exact (rationals); the *)
(* binary rounding of IEEE doubles and the sign of zero are not modelled.  *)
(* The special values, the comparisons with NaN, `||` on a falsy number,   *)
(* reads past the end of an array (undefined) and the conversion of a      *)
(* typed-array store (clamp, round half to even, NaN -> 0) follow the      *)
(* language.                                                               *)
(*                                                                         *)
(* Memory.  `heap` is the sequence of pixel buffers that exist; a buffer's *)
(* identity is its index.  heap[1] is the buffer the caller passes in.     *)
(* Every function of the library takes the heap and returns the heap it    *)
(* leaves behind together with what it returns (or throws).                *)
(***************************************************************************)
EXTENDS Integers, Sequences, FiniteSets, TLC

VARIABLES heap, call, pageOptions

vars == <<heap, call, pageOptions>>

(***************************************************************************)
(* JavaScript numbers                                                      *)
(***************************************************************************)
NaN == <<0, 0>>
PosInf == <<1, 0>>
NegInf == <<-1, 0>>

Abs(i) == IF i < 0 THEN -i ELSE i

RECURSIVE GCD(_, _)
GCD(a, b) == IF b = 0 THEN a ELSE GCD(b, a % b)

\* the number n/d, d # 0, in lowest terms with a positive denominator
Frac(n, d) ==
  LET g == GCD(Abs(n), Abs(d))
      s == IF d < 0 THEN -1 ELSE 1
  IN <<(s * n) \div g, (s * d) \div g>>

Num(i) == <<i, 1>>

IsNaN(a) == a = NaN
IsFinite(a) == a[2] > 0
IsInteger(a) == a[2] = 1
Sign(a) == IF a[1] > 0 THEN 1 ELSE IF a[1] < 0 THEN -1 ELSE 0

\* a + b
NumAdd(a, b) ==
  IF a[2] = 1 /\ b[2] = 1 THEN <<a[1] + b[1], 1>>
  ELSE IF a[2] > 0 /\ b[2] = 1 THEN <<a[1] + b[1] * a[2], a[2]>>
  ELSE IF IsNaN(a) \/ IsNaN(b) THEN NaN
  ELSE IF ~IsFinite(a) THEN (IF ~IsFinite(b) /\ a # b THEN NaN ELSE a)
  ELSE IF ~IsFinite(b) THEN b
  ELSE LET g == GCD(a[2], b[2])
           l == (a[2] \div g) * b[2]
       IN Frac(a[1] * (l \div a[2]) + b[1] * (l \div b[2]), l)

NumNeg(a) == <<-a[1], a[2]>>

\* a - b
NumSub(a, b) == NumAdd(a, NumNeg(b))

\* a * b
NumMul(a, b) ==
  IF a[2] = 1 /\ b[2] = 1 THEN <<a[1] * b[1], 1>>
  ELSE IF IsNaN(a) \/ IsNaN(b) THEN NaN
  ELSE IF ~IsFinite(a) \/ ~IsFinite(b)
    THEN (IF Sign(a) * Sign(b) = 0 THEN NaN ELSE <<Sign(a) * Sign(b), 0>>)
  ELSE LET g1 == GCD(Abs(a[1]), b[2])
           g2 == GCD(Abs(b[1]), a[2])
       IN Frac((a[1] \div g1) * (b[1] \div g2), (a[2] \div g2) * (b[2] \div g1))

\* a / b
NumDiv(a, b) ==
  IF IsNaN(a) \/ IsNaN(b) THEN NaN
  ELSE IF ~IsFinite(b) THEN (IF IsFinite(a) THEN Num(0) ELSE NaN)
  ELSE IF ~IsFinite(a) THEN <<Sign(a) * (IF Sign(b) < 0 THEN -1 ELSE 1), 0>>
  ELSE IF b[1] = 0 THEN <<Sign(a), 0>>
  ELSE NumMul(a, Frac(b[2], b[1]))

\* a < b
NumLt(a, b) ==
  IF a[2] = b[2] /\ a[2] > 0 THEN a[1] < b[1]
  ELSE IF IsNaN(a) \/ IsNaN(b) THEN FALSE
  ELSE IF ~IsFinite(a) \/ ~IsFinite(b)
    THEN (IF IsFinite(a) THEN b = PosInf
          ELSE IF IsFinite(b) THEN a = NegInf
          ELSE a = NegInf /\ b = PosInf)
  ELSE LET g == GCD(a[2], b[2])
       IN a[1] * (b[2] \div g) < b[1] * (a[2] \div g)

\* a > b, a >= b, a <= b
NumGt(a, b) == NumLt(b, a)
NumGe(a, b) == ~IsNaN(a) /\ ~IsNaN(b) /\ ~NumLt(a, b)
NumLe(a, b) == NumGe(b, a)

\* Math.floor, Math.round (ties towards +Infinity), Math.max, Math.min, Math.abs
MathFloor(a) == IF IsFinite(a) THEN Num(a[1] \div a[2]) ELSE a
MathRound(a) == IF IsFinite(a) THEN Num((2 * a[1] + a[2]) \div (2 * a[2])) ELSE a
MathMax(a, b) == IF IsNaN(a) \/ IsNaN(b) THEN NaN ELSE IF NumLt(a, b) THEN b ELSE a
MathMin(a, b) == IF IsNaN(a) \/ IsNaN(b) THEN NaN ELSE IF NumLt(b, a) THEN b ELSE a
MathAbs(a) == <<Abs(a[1]), a[2]>>

\* a || b on numbers: 0 and NaN are falsy
OrElse(a, b) == IF IsNaN(a) \/ a = Num(0) THEN b ELSE a

(***************************************************************************)
(* Typed arrays (Uint8ClampedArray)                                        *)
(***************************************************************************)
\* undefined, as the value of a read: it is not a number, and arithmetic
\* turns it into NaN
Undefined == <<0, -1>>
ToNumber(v) == IF v = Undefined THEN NaN ELSE v

\* the value a store into a Uint8ClampedArray leaves: undefined and NaN
\* become 0, the rest is clamped to 0..255 and rounded, ties to even
ToUint8Clamp(v) ==
  IF v = Undefined \/ IsNaN(v) THEN 0
  ELSE IF NumLe(v, Num(0)) THEN 0
  ELSE IF NumGe(v, Num(255)) THEN 255
  ELSE LET f == v[1] \div v[2]
           r == 2 * (v[1] - f * v[2])
       IN IF r < v[2] THEN f
          ELSE IF r > v[2] THEN f + 1
          ELSE IF f % 2 = 0 THEN f ELSE f + 1

\* data[i] for a 0-based index i: a number, or undefined outside the array
ReadAt(data, i) == IF i >= 0 /\ i < Len(data) THEN Num(data[i + 1]) ELSE Undefined

\* data[i] for an index computed as a number
ReadAtNum(data, n) == IF IsInteger(n) THEN ReadAt(data, n[1]) ELSE Undefined

\* data[i] = v: a store outside the array is dropped
WriteAt(data, i, v) ==
  IF i >= 0 /\ i < Len(data) THEN [data EXCEPT ![i + 1] = ToUint8Clamp(v)] ELSE data

\* data[n] = v for an index computed as a number
WriteAtNum(data, n, v) == IF IsInteger(n) THEN WriteAt(data, n[1], v) ELSE data

\* the length new Uint8ClampedArray(n) gets: -1 stands for the RangeError
\* that a negative or infinite length raises; NaN gives 0, a fraction is cut
ToIndex(n) ==
  IF IsNaN(n) THEN 0
  ELSE IF ~IsFinite(n) THEN -1
  ELSE IF n[1] < 0 /\ -n[1] >= n[2] THEN -1
  ELSE IF n[1] < 0 THEN 0
  ELSE n[1] \div n[2]

Zeros(n) == [i \in 1..n |-> 0]

\* TRUE, for every array or tuple v.  A loop below asks it of the array an iteration
\* leaves before it goes on to the next: the iteration is then evaluated in
\* full first, and a long loop does not nest its evaluations
Done(v) == Len(v) >= 0

\* how often `for (let i = 0; i < n; i++)` runs its body; -1 when it never ends
LoopCount(n) ==
  IF IsNaN(n) THEN 0
  ELSE IF n = PosInf THEN -1
  ELSE IF n = NegInf \/ n[1] <= 0 THEN 0
  ELSE (n[1] + n[2] - 1) \div n[2]

(***************************************************************************)
(* The heap of pixel buffers (ImageData: data, width, height)              *)
(***************************************************************************)
ImageData(data, width, height) == [data |-> data, width |-> width, height |-> height]

\* new Uint8ClampedArray(n): the heap with a fresh zero-filled array, whose
\* identity is Len(h) + 1
NewArray(h, n) == Append(h, ImageData(Zeros(n), NaN, NaN))

\* what a call leaves: the heap and the value returned or the error thrown
Outcome(h, ret) == [heap |-> h, ret |-> ret]
Buffer(ref) == [kind |-> "buffer", ref |-> ref]
Throw(error) == [kind |-> "throw", error |-> error]
Hang == [kind |-> "hang"]

(***************************************************************************)
(* ascii-converter.ts: resizeImageData, calculateDimensions                *)
(***************************************************************************)
\* Math.floor(x * scaleX), Math.floor(y * scaleY)
SourceCoordRounded(i, scale) == MathRound(NumMul(Num(i), scale))
SourceCoord(i, scale) == MathFloor(NumMul(Num(i), scale))

\* targetWidth * targetHeight * 4
ResizedLengthRGB(targetWidth, targetHeight) == NumMul(NumMul(targetWidth, targetHeight), Num(3))
ResizedLength(targetWidth, targetHeight) == NumMul(NumMul(targetWidth, targetHeight), Num(4))

\* the loops of resizeImageData on the destination pixels lo..hi-1, in the
\* order the code visits them (y outer, x inner), taken as a first half
\* followed by a second half; tw is the inner loop's count, nd the
\* destination array
RECURSIVE ResizeLoop(_, _, _, _, _, _, _, _, _)
ResizeLoop(nd, data, width, scaleX, scaleY, targetWidth, tw, lo, hi) ==
  IF hi <= lo THEN nd
  ELSE IF hi > lo + 1
    THEN LET mid == (lo + hi) \div 2
             nd1 == ResizeLoop(nd, data, width, scaleX, scaleY, targetWidth, tw, lo, mid)
         IN IF Done(nd1)
            THEN ResizeLoop(nd1, data, width, scaleX, scaleY, targetWidth, tw, mid, hi)
            ELSE nd1
  ELSE LET y == lo \div tw
           x == lo % tw
           sourceX == SourceCoord(x, scaleX)
           sourceY == SourceCoord(y, scaleY)
           sourceIndex == NumMul(NumAdd(NumMul(sourceY, width), sourceX), Num(4))
           targetIndex == NumMul(NumAdd(NumMul(Num(y), targetWidth), Num(x)), Num(4))
           w0 == WriteAtNum(nd, targetIndex, ReadAtNum(data, sourceIndex))
           w1 == WriteAtNum(w0, NumAdd(targetIndex, Num(1)), ReadAtNum(data, NumAdd(sourceIndex, Num(1))))
           w2 == WriteAtNum(w1, NumAdd(targetIndex, Num(2)), ReadAtNum(data, NumAdd(sourceIndex, Num(2))))
           w3 == WriteAtNum(w2, NumAdd(targetIndex, Num(3)), ReadAtNum(data, NumAdd(sourceIndex, Num(3))))
       IN w3

\* resizeImageData(imageData, targetWidth, targetHeight), imageData = h[src]
resizeImageData(h, src, targetWidth, targetHeight) ==
  LET data == h[src].data
      width == h[src].width
      height == h[src].height
      len == ToIndex(ResizedLength(targetWidth, targetHeight))
      scaleX == NumDiv(width, targetWidth)
      scaleY == NumDiv(height, targetHeight)
      th == LoopCount(targetHeight)
      tw == LoopCount(targetWidth)
      h1 == NewArray(h, len)
      nd == Len(h1)
  IN IF len < 0 THEN Outcome(h, Throw("RangeError"))
     ELSE IF th < 0 \/ (th > 0 /\ tw < 0) THEN Outcome(h1, Hang)
     ELSE Outcome(
            [h1 EXCEPT ![nd] = ImageData(
               ResizeLoop(h1[nd].data, data, width, scaleX, scaleY, targetWidth, tw, 0,
                          tw * th),
               targetWidth, targetHeight)],
            Buffer(nd))

\* calculateDimensions(originalWidth, originalHeight, targetWidth,
\*                     maintainAspectRatio, charAspectRatio)
calculateDimensionsSquareCells(originalWidth, originalHeight, targetWidth, maintainAspectRatio, charAspectRatio) ==
  IF ~maintainAspectRatio
  THEN [width |-> targetWidth, height |-> MathFloor(NumMul(targetWidth, Frac(1, 2)))]
  ELSE LET imageAspectRatio == NumDiv(originalWidth, originalHeight)
       IN [width |-> targetWidth, height |-> MathFloor(NumDiv(targetWidth, imageAspectRatio))]
calculateDimensionsHalf(originalWidth, originalHeight, targetWidth, maintainAspectRatio, charAspectRatio) ==
  IF ~maintainAspectRatio
  THEN [width |-> targetWidth, height |-> MathFloor(NumMul(targetWidth, Frac(1, 2)))]
  ELSE LET imageAspectRatio == NumDiv(originalWidth, originalHeight)
           targetHeight == MathFloor(NumMul(NumDiv(targetWidth, imageAspectRatio), Frac(1, 2)))
       IN [width |-> targetWidth, height |-> targetHeight]
calculateDimensions(originalWidth, originalHeight, targetWidth, maintainAspectRatio, charAspectRatio) ==
  IF ~maintainAspectRatio
  THEN [width |-> targetWidth, height |-> MathFloor(NumMul(targetWidth, Frac(1, 2)))]
  ELSE LET imageAspectRatio == NumDiv(originalWidth, originalHeight)
           targetHeight == MathFloor(NumMul(NumDiv(targetWidth, imageAspectRatio), charAspectRatio))
       IN [width |-> targetWidth, height |-> targetHeight]

(***************************************************************************)
(* dithering.ts: the matrices and the kernels                              *)
(***************************************************************************)
ORDERED_2X2 == << <<0, 2>>, <<3, 1>> >>

ORDERED_4X4 ==
  << <<0, 8, 2, 10>>, <<12, 4, 14, 6>>, <<3, 11, 1, 9>>, <<15, 7, 13, 5>> >>

ORDERED_8X8 ==
  << <<0, 32, 8, 40, 2, 34, 10, 42>>,
     <<48, 16, 56, 24, 50, 18, 58, 26>>,
     <<12, 44, 4, 36, 14, 46, 6, 38>>,
     <<60, 28, 52, 20, 62, 30, 54, 22>>,
     <<3, 35, 11, 43, 1, 33, 9, 41>>,
     <<51, 19, 59, 27, 49, 17, 57, 25>>,
     <<15, 47, 7, 39, 13, 45, 5, 37>>,
     <<63, 31, 55, 23, 61, 29, 53, 21>> >>

\* a tap [dx, dy, weight] of a kernel handed to errorDiffusionDither
Tap(dx, dy, n, d) == [dx |-> dx, dy |-> dy, weight |-> Frac(n, d)]

FloydSteinbergKernelHeavy ==
  << Tap(0, 0, 7, 16), Tap(-1, 1, 3, 16), Tap(0, 1, 5, 16), Tap(1, 1, 3, 16) >>
FloydSteinbergKernel ==
  << Tap(0, 0, 7, 16), Tap(-1, 1, 3, 16), Tap(0, 1, 5, 16), Tap(1, 1, 1, 16) >>

JarvisJudiceNinkeKernel ==
  << Tap(1, 0, 7, 48), Tap(2, 0, 5, 48),
     Tap(-2, 1, 3, 48), Tap(-1, 1, 5, 48), Tap(0, 1, 7, 48), Tap(1, 1, 5, 48), Tap(2, 1, 3, 48),
     Tap(-2, 2, 1, 48), Tap(-1, 2, 3, 48), Tap(0, 2, 5, 48), Tap(1, 2, 3, 48), Tap(2, 2, 1, 48) >>

StuckiKernel ==
  << Tap(1, 0, 8, 42), Tap(2, 0, 4, 42),
     Tap(-2, 1, 2, 42), Tap(-1, 1, 4, 42), Tap(0, 1, 8, 42), Tap(1, 1, 4, 42), Tap(2, 1, 2, 42),
     Tap(-2, 2, 1, 42), Tap(-1, 2, 2, 42), Tap(0, 2, 4, 42), Tap(1, 2, 2, 42), Tap(2, 2, 1, 42) >>

\* a statement `if (guards) newData[(y + dy) * width + x + dx ...] += error * mul / div`
\* of the hand-written algorithms
Stmt(dx, dy, mul, div) == [dx |-> dx, dy |-> dy, mul |-> mul, div |-> div]

AtkinsonStmts ==
  << Stmt(1, 0, 1, 8), Stmt(2, 0, 1, 8),
     Stmt(-1, 1, 1, 8), Stmt(0, 1, 1, 8), Stmt(1, 1, 1, 8),
     Stmt(0, 2, 1, 8) >>

BurkesStmts ==
  << Stmt(1, 0, 8, 32), Stmt(2, 0, 4, 32),
     Stmt(-2, 1, 2, 32), Stmt(-1, 1, 4, 32), Stmt(0, 1, 8, 32), Stmt(1, 1, 4, 32), Stmt(2, 1, 2, 32) >>

SierraStmts ==
  << Stmt(1, 0, 5, 32), Stmt(2, 0, 3, 32),
     Stmt(-2, 1, 2, 32), Stmt(-1, 1, 4, 32), Stmt(0, 1, 5, 32), Stmt(1, 1, 4, 32), Stmt(2, 1, 2, 32),
     Stmt(-1, 2, 2, 32), Stmt(0, 2, 3, 32), Stmt(1, 2, 2, 32) >>

SierraLiteStmts ==
  << Stmt(1, 0, 2, 4), Stmt(-1, 1, 1, 4), Stmt(0, 1, 1, 4) >>

(***************************************************************************)
(* dithering.ts: the algorithms                                            *)
(***************************************************************************)
\* const newData = new Uint8ClampedArray(data): the heap with the copy, and
\* the identity of the array newData names
Uint8ClampedArrayView(h, src) == [heap |-> h, ref |-> src]
Uint8ClampedArrayFrom(h, src) ==
  [heap |-> Append(h, ImageData(h[src].data, NaN, NaN)), ref |-> Len(h) + 1]

\* return { data: newData, width, height }
ReturnImage(a, nd, width, height) ==
  Outcome([a.heap EXCEPT ![a.ref] = ImageData(nd, width, height)], Buffer(a.ref))

\* oldPixel < 128 ? 0 : 255
Quantize(oldPixel) == IF NumLt(oldPixel, Num(128)) THEN Num(0) ELSE Num(255)

\* errorDiffusionDither: the kernel loop from tap t on
RECURSIVE KernelLoop(_, _, _, _, _, _, _, _, _, _)
KernelLoop(nd, kernel, t, x, y, channel, error, isRightToLeft, width, height) ==
  IF t > Len(kernel) THEN nd
  ELSE LET nx == x + (IF isRightToLeft THEN -kernel[t].dx ELSE kernel[t].dx)
           ny == y + kernel[t].dy
           neighborIndex == (ny * width + nx) * 4 + channel
           nd1 == IF nx >= 0 /\ nx < width /\ ny >= 0 /\ ny < height
                  THEN WriteAt(nd, neighborIndex,
                         MathMax(Num(0), MathMin(Num(255),
                           NumAdd(ToNumber(ReadAt(nd, neighborIndex)), NumMul(error, kernel[t].weight)))))
                  ELSE nd
       IN IF Done(nd1)
          THEN KernelLoop(nd1, kernel, t + 1, x, y, channel, error, isRightToLeft, width, height)
          ELSE nd1

\* errorDiffusionDither: the channel loop of the pixel (x, y) from `channel` on
RECURSIVE DiffuseChannelsRedError(_, _, _, _, _, _, _, _, _)
DiffuseChannelsRedError(nd, kernel, x, y, channel, strength, isRightToLeft, width, height) ==
  IF channel >= 3 THEN nd
  ELSE LET index == (y * width + x) * 4
           oldPixel == ToNumber(ReadAt(nd, index + channel))
           newPixel == Quantize(oldPixel)
           error == NumMul(NumSub(ToNumber(ReadAt(nd, index)), newPixel), strength)
           nd1 == WriteAt(nd, index + channel, newPixel)
           nd2 == KernelLoop(nd1, kernel, 1, x, y, channel, error, isRightToLeft, width, height)
       IN IF Done(nd2)
          THEN DiffuseChannelsRedError(nd2, kernel, x, y, channel + 1, strength, isRightToLeft, width, height)
          ELSE nd2
RECURSIVE DiffuseChannels(_, _, _, _, _, _, _, _, _)
DiffuseChannels(nd, kernel, x, y, channel, strength, isRightToLeft, width, height) ==
  IF channel >= 3 THEN nd
  ELSE LET index == (y * width + x) * 4
           oldPixel == ToNumber(ReadAt(nd, index + channel))
           newPixel == Quantize(oldPixel)
           error == NumMul(NumSub(oldPixel, newPixel), strength)
           nd1 == WriteAt(nd, index + channel, newPixel)
           nd2 == KernelLoop(nd1, kernel, 1, x, y, channel, error, isRightToLeft, width, height)
       IN IF Done(nd2)
          THEN DiffuseChannels(nd2, kernel, x, y, channel + 1, strength, isRightToLeft, width, height)
          ELSE nd2

\* the x of the i-th pixel visited in row y
ScanXLeftToRight(i, y, serpentine, width) == i
ScanX(i, y, serpentine, width) ==
  IF serpentine /\ y % 2 = 1 THEN width - 1 - i ELSE i

\* errorDiffusionDither: the pixel loops from the k-th visited pixel on
RECURSIVE DiffusePixels(_, _, _, _, _, _, _)
DiffusePixels(nd, kernel, strength, serpentine, width, height, k) ==
  IF k >= width * height THEN nd
  ELSE LET y == k \div width
           x == ScanX(k % width, y, serpentine, width)
           isRightToLeft == serpentine /\ y % 2 = 1
           nd1 == DiffuseChannels(nd, kernel, x, y, 0, strength, isRightToLeft, width, height)
       IN IF Done(nd1)
          THEN DiffusePixels(nd1, kernel, strength, serpentine, width, height, k + 1)
          ELSE nd1

errorDiffusionDither(h, src, strength, kernel, serpentine) ==
  LET a == Uint8ClampedArrayFrom(h, src)
      width == h[src].width
      height == h[src].height
  IN ReturnImage(a,
       DiffusePixels(a.heap[a.ref].data, kernel, strength, serpentine, width[1], height[1], 0),
       width, height)

floydSteinbergDither(h, src, strength) ==
  errorDiffusionDither(h, src, strength, FloydSteinbergKernel, FALSE)

floydSteinbergSerpentineDither(h, src, strength) ==
  errorDiffusionDither(h, src, strength, FloydSteinbergKernel, TRUE)

jarvisJudiceNinkeDither(h, src, strength) ==
  errorDiffusionDither(h, src, strength, JarvisJudiceNinkeKernel, FALSE)

stuckiDither(h, src, strength) ==
  errorDiffusionDither(h, src, strength, StuckiKernel, FALSE)

\* the guards the hand-written algorithms put before a statement: only the
\* side of the buffer the offset can leave is tested
StmtGuardRowsOnly(st, x, y, width, height) ==
  /\ st.dx < 0 => x + st.dx >= 0
  /\ st.dy > 0 => y + st.dy < height
StmtGuard(st, x, y, width, height) ==
  /\ st.dx > 0 => x + st.dx < width
  /\ st.dx < 0 => x + st.dx >= 0
  /\ st.dy > 0 => y + st.dy < height

\* the statements of a hand-written algorithm from the t-th on
RECURSIVE StmtLoop(_, _, _, _, _, _, _, _, _)
StmtLoop(nd, stmts, t, x, y, channel, error, width, height) ==
  IF t > Len(stmts) THEN nd
  ELSE LET i == ((y + stmts[t].dy) * width + x + stmts[t].dx) * 4 + channel
           nd1 == IF StmtGuard(stmts[t], x, y, width, height)
                  THEN WriteAt(nd, i,
                         NumAdd(ToNumber(ReadAt(nd, i)),
                                NumDiv(NumMul(error, Num(stmts[t].mul)), Num(stmts[t].div))))
                  ELSE nd
       IN IF Done(nd1)
          THEN StmtLoop(nd1, stmts, t + 1, x, y, channel, error, width, height)
          ELSE nd1

RECURSIVE StmtChannels(_, _, _, _, _, _, _, _)
StmtChannels(nd, stmts, x, y, channel, strength, width, height) ==
  IF channel >= 3 THEN nd
  ELSE LET index == (y * width + x) * 4
           oldPixel == ToNumber(ReadAt(nd, index + channel))
           newPixel == Quantize(oldPixel)
           error == NumMul(NumSub(oldPixel, newPixel), strength)
           nd1 == WriteAt(nd, index + channel, newPixel)
           nd2 == StmtLoop(nd1, stmts, 1, x, y, channel, error, width, height)
       IN IF Done(nd2)
          THEN StmtChannels(nd2, stmts, x, y, channel + 1, strength, width, height)
          ELSE nd2

RECURSIVE StmtPixels(_, _, _, _, _, _)
StmtPixels(nd, stmts, strength, width, height, k) ==
  IF k >= width * height THEN nd
  ELSE LET nd1 == StmtChannels(nd, stmts, k % width, k \div width, 0, strength, width, height)
       IN IF Done(nd1)
          THEN StmtPixels(nd1, stmts, strength, width, height, k + 1)
          ELSE nd1

\* the shape atkinsonDither, burkesDither, sierraDither and sierraLiteDither share
RasterDither(h, src, strength, stmts) ==
  LET a == Uint8ClampedArrayFrom(h, src)
      width == h[src].width
      height == h[src].height
  IN ReturnImage(a,
       StmtPixels(a.heap[a.ref].data, stmts, strength, width[1], height[1], 0),
       width, height)

atkinsonDither(h, src, strength) == RasterDither(h, src, strength, AtkinsonStmts)
burkesDither(h, src, strength) == RasterDither(h, src, strength, BurkesStmts)
sierraDither(h, src, strength) == RasterDither(h, src, strength, SierraStmts)
sierraLiteDither(h, src, strength) == RasterDither(h, src, strength, SierraLiteStmts)

\* newData[index + channel] = oldPixel > threshold ? 255 : 0, for the three
\* channels of the pixel at index
RECURSIVE ThresholdChannels(_, _, _, _)
ThresholdChannels(nd, index, threshold, channel) ==
  IF channel >= 3 THEN nd
  ELSE LET oldPixel == ToNumber(ReadAt(nd, index + channel))
           nd1 == WriteAt(nd, index + channel,
                          IF NumGt(oldPixel, threshold) THEN Num(255) ELSE Num(0))
       IN IF Done(nd1) THEN ThresholdChannels(nd1, index, threshold, channel + 1) ELSE nd1

RECURSIVE OrderedPixelsTransposed(_, _, _, _, _, _)
OrderedPixelsTransposed(nd, matrix, strength, width, lo, hi) ==
  IF hi <= lo THEN nd
  ELSE IF hi > lo + 1
    THEN LET mid == (lo + hi) \div 2
             nd1 == OrderedPixelsTransposed(nd, matrix, strength, width, lo, mid)
         IN IF Done(nd1) THEN OrderedPixelsTransposed(nd1, matrix, strength, width, mid, hi) ELSE nd1
  ELSE LET y == lo \div width
           x == lo % width
           matrixSize == Len(matrix)
           maxValue == matrixSize * matrixSize - 1
           index == (y * width + x) * 4
           threshold == NumMul(NumMul(
                          NumDiv(Num(matrix[(x % matrixSize) + 1][(y % matrixSize) + 1]), Num(maxValue)),
                          Num(255)), strength)
       IN ThresholdChannels(nd, index, threshold, 0)
RECURSIVE OrderedPixels(_, _, _, _, _, _)
OrderedPixels(nd, matrix, strength, width, lo, hi) ==
  IF hi <= lo THEN nd
  ELSE IF hi > lo + 1
    THEN LET mid == (lo + hi) \div 2
             nd1 == OrderedPixels(nd, matrix, strength, width, lo, mid)
         IN IF Done(nd1) THEN OrderedPixels(nd1, matrix, strength, width, mid, hi) ELSE nd1
  ELSE LET y == lo \div width
           x == lo % width
           matrixSize == Len(matrix)
           maxValue == matrixSize * matrixSize - 1
           index == (y * width + x) * 4
           threshold == NumMul(NumMul(
                          NumDiv(Num(matrix[(y % matrixSize) + 1][(x % matrixSize) + 1]), Num(maxValue)),
                          Num(255)), strength)
       IN ThresholdChannels(nd, index, threshold, 0)

orderedDither(h, src, matrix, strength) ==
  LET a == Uint8ClampedArrayFrom(h, src)
      width == h[src].width
      height == h[src].height
  IN ReturnImage(a,
       OrderedPixels(a.heap[a.ref].data, matrix, strength, width[1], 0,
                     width[1] * height[1]),
       width, height)

\* generateBlueNoiseMap: the energy of the interior cell (x, y), the sum of
\* its eight neighbours; map holds the rows one after the other
Energy(map, x, y, width) ==
  LET at(dx, dy) == map[(y + dy) * width + (x + dx) + 1]
  IN NumAdd(NumAdd(NumAdd(at(-1, -1), at(0, -1)), NumAdd(at(1, -1), at(-1, 0))),
            NumAdd(NumAdd(at(1, 0), at(-1, 1)), NumAdd(at(0, 1), at(1, 1))))

\* generateBlueNoiseMap: the search for the void over the interior cells from
\* the k-th on (y from 1 to height - 2, x from 1 to width - 2)
RECURSIVE VoidSearch(_, _, _, _, _, _)
VoidSearch(map, width, height, k, maxEnergy, void) ==
  IF width < 3 \/ height < 3 \/ k >= (width - 2) * (height - 2) THEN void
  ELSE LET y == 1 + (k \div (width - 2))
           x == 1 + (k % (width - 2))
           energy == Energy(map, x, y, width)
       IN IF NumGt(energy, maxEnergy)
          THEN VoidSearch(map, width, height, k + 1, energy, [x |-> x, y |-> y])
          ELSE VoidSearch(map, width, height, k + 1, maxEnergy, void)

\* generateBlueNoiseMap: the iterations from `iteration` on.  map[voidY] of a
\* map without rows is undefined, and reading [voidX] of it throws; in a row
\* without cells the product is NaN, stored in a cell nothing reads
RECURSIVE VoidAndCluster(_, _, _, _)
VoidAndCluster(map, width, height, iteration) ==
  IF iteration >= 10 THEN [throws |-> FALSE, map |-> map]
  ELSE LET void == VoidSearch(map, width, height, 0, NegInf, [x |-> 0, y |-> 0])
           i == void.y * width + void.x + 1
       IN IF height <= 0 THEN [throws |-> TRUE, map |-> map]
          ELSE IF width <= 0 THEN VoidAndCluster(map, width, height, iteration + 1)
          ELSE LET map1 == [map EXCEPT ![i] = NumMul(map[i], Frac(1, 2))]
               IN IF Done(map1)
                  THEN VoidAndCluster(map1, width, height, iteration + 1)
                  ELSE [throws |-> FALSE, map |-> map1]

\* generateBlueNoiseMap(width, height); random[k] is what the k-th call of
\* Math.random() returns
generateBlueNoiseMap(width, height, random) ==
  VoidAndCluster([k \in 1..(width * height) |-> random[k]], width, height, 0)

RECURSIVE BlueNoisePixels(_, _, _, _, _, _)
BlueNoisePixels(nd, noiseMap, strength, width, height, k) ==
  IF k >= width * height THEN nd
  ELSE LET y == k \div width
           x == k % width
           index == (y * width + x) * 4
           threshold == NumMul(NumMul(noiseMap[y * width + x + 1], Num(255)), strength)
           nd1 == ThresholdChannels(nd, index, threshold, 0)
       IN IF Done(nd1)
          THEN BlueNoisePixels(nd1, noiseMap, strength, width, height, k + 1)
          ELSE nd1

blueNoiseDither(h, src, strength, random) ==
  LET a == Uint8ClampedArrayFrom(h, src)
      width == h[src].width
      height == h[src].height
      noise == generateBlueNoiseMap(width[1], height[1], random)
  IN IF noise.throws THEN Outcome(a.heap, Throw("TypeError"))
     ELSE ReturnImage(a,
            BlueNoisePixels(a.heap[a.ref].data, noise.map, strength, width[1], height[1], 0),
            width, height)

\* (data[i] + data[i + 1] + data[i + 2]) / 3 of the pixel (x, y)
MeanRGBRedOnly(data, x, y, width) == ToNumber(ReadAt(data, (y * width + x) * 4))
MeanRGB(data, x, y, width) ==
  LET i == (y * width + x) * 4
  IN NumDiv(NumAdd(NumAdd(ToNumber(ReadAt(data, i)), ToNumber(ReadAt(data, i + 1))),
                   ToNumber(ReadAt(data, i + 2))), Num(3))

\* calculateLocalContrast: the neighbour loops from the k-th of the nine
\* offsets on (dy outer, dx inner, both from -1 to 1)
RECURSIVE ContrastLoop(_, _, _, _, _, _, _)
ContrastLoop(data, x, y, width, height, k, maxDiff) ==
  IF k >= 9 THEN maxDiff
  ELSE LET nx == x + (k % 3) - 1
           ny == y + (k \div 3) - 1
           diff == MathAbs(NumSub(MeanRGB(data, x, y, width), MeanRGB(data, nx, ny, width)))
       IN ContrastLoop(data, x, y, width, height, k + 1,
            IF nx >= 0 /\ nx < width /\ ny >= 0 /\ ny < height
            THEN MathMax(maxDiff, diff) ELSE maxDiff)

calculateLocalContrast(data, x, y, width, height) ==
  NumDiv(ContrastLoop(data, x, y, width, height, 0, Num(0)), Num(255))

\* newData[i] += v
PlusEq(nd, i, v) == WriteAt(nd, i, NumAdd(ToNumber(ReadAt(nd, i)), v))

\* adaptiveHybridDither: the channel loop of the pixel (x, y)
RECURSIVE AdaptiveChannels(_, _, _, _, _, _, _, _)
AdaptiveChannels(nd, contrast, x, y, channel, strength, width, height) ==
  IF channel >= 3 THEN nd
  ELSE LET index == (y * width + x) * 4
           oldPixel == ToNumber(ReadAt(nd, index + channel))
           error == NumMul(NumMul(NumSub(oldPixel, Quantize(oldPixel)), strength), Frac(7, 10))
           e1 == IF x + 1 < width
                 THEN PlusEq(nd, ((y * width) + x + 1) * 4 + channel, NumMul(error, Frac(4, 10)))
                 ELSE nd
           e2 == IF y + 1 < height /\ x > 0
                 THEN PlusEq(e1, ((y + 1) * width + x - 1) * 4 + channel, NumMul(error, Frac(2, 10)))
                 ELSE e1
           e3 == IF y + 1 < height
                 THEN PlusEq(e2, ((y + 1) * width + x) * 4 + channel, NumMul(error, Frac(3, 10)))
                 ELSE e2
           threshold == NumMul(NumMul(NumDiv(Num((x % 4) * 4 + (y % 4)), Num(16)), Num(255)), strength)
           newPixel == IF NumGt(contrast, Frac(3, 10)) THEN Quantize(oldPixel)
                       ELSE IF NumGt(contrast, Frac(1, 10)) THEN Quantize(oldPixel)
                       ELSE IF NumGt(oldPixel, threshold) THEN Num(255) ELSE Num(0)
           nd1 == IF ~NumGt(contrast, Frac(3, 10)) /\ NumGt(contrast, Frac(1, 10)) THEN e3 ELSE nd
           nd2 == WriteAt(nd1, index + channel, MathMax(Num(0), MathMin(Num(255), newPixel)))
       IN IF Done(nd2)
          THEN AdaptiveChannels(nd2, contrast, x, y, channel + 1, strength, width, height)
          ELSE nd2

RECURSIVE AdaptivePixels(_, _, _, _, _, _)
AdaptivePixels(nd, data, strength, width, height, k) ==
  IF k >= width * height THEN nd
  ELSE LET y == k \div width
           x == k % width
           nd1 == AdaptiveChannels(nd, calculateLocalContrast(data, x, y, width, height),
                                   x, y, 0, strength, width, height)
       IN IF Done(nd1)
          THEN AdaptivePixels(nd1, data, strength, width, height, k + 1)
          ELSE nd1

\* the contrast map is computed from data, the array of the input, before
\* the pixel loop writes anything
adaptiveHybridDither(h, src, strength) ==
  LET a == Uint8ClampedArrayFrom(h, src)
      width == h[src].width
      height == h[src].height
  IN ReturnImage(a,
       AdaptivePixels(a.heap[a.ref].data, h[src].data, strength, width[1], height[1], 0),
       width, height)

\* algorithm === 'none' || strength === 0
\* getRecommendedDithering(artStyle, characterCount, useColors)
getRecommendedDitheringAbove50(artStyle, characterCount, useColors) ==
  IF artStyle = "ansi"
  THEN IF useColors THEN "none"
       ELSE IF NumLe(characterCount, Num(5)) THEN "none" ELSE "ordered-2x2"
  ELSE IF NumLe(characterCount, Num(10)) THEN "none"
       ELSE IF NumGt(characterCount, Num(50)) THEN "floyd-steinberg-serpentine"
       ELSE "none"
getRecommendedDithering(artStyle, characterCount, useColors) ==
  IF artStyle = "ansi"
  THEN IF useColors THEN "none"
       ELSE IF NumLe(characterCount, Num(5)) THEN "none" ELSE "ordered-2x2"
  ELSE IF NumLe(characterCount, Num(10)) THEN "none"
       ELSE IF NumGe(characterCount, Num(50)) THEN "floyd-steinberg-serpentine"
       ELSE "none"

IsIdentityNoneOnly(algorithm, strength) == algorithm = "none"
IsIdentity(algorithm, strength) == algorithm = "none" \/ strength = Num(0)

\* applyDithering(imageData, { algorithm, strength }), imageData = h[src]
applyDithering(h, src, options, random) ==
  LET algorithm == options.algorithm
      strength == options.strength
  IN IF IsIdentity(algorithm, strength) THEN Outcome(h, Buffer(src))
     ELSE CASE algorithm = "floyd-steinberg" -> floydSteinbergDither(h, src, strength)
            [] algorithm = "floyd-steinberg-serpentine" -> floydSteinbergSerpentineDither(h, src, strength)
            [] algorithm = "jarvis-judice-ninke" -> jarvisJudiceNinkeDither(h, src, strength)
            [] algorithm = "stucki" -> stuckiDither(h, src, strength)
            [] algorithm = "atkinson" -> atkinsonDither(h, src, strength)
            [] algorithm = "burkes" -> burkesDither(h, src, strength)
            [] algorithm = "sierra" -> sierraDither(h, src, strength)
            [] algorithm = "sierra-lite" -> sierraLiteDither(h, src, strength)
            [] algorithm = "ordered-2x2" -> orderedDither(h, src, ORDERED_2X2, strength)
            [] algorithm = "ordered-4x4" -> orderedDither(h, src, ORDERED_4X4, strength)
            [] algorithm = "ordered-8x8" -> orderedDither(h, src, ORDERED_8X8, strength)
            [] algorithm = "blue-noise" -> blueNoiseDither(h, src, strength, random)
            [] algorithm = "adaptive-hybrid" -> adaptiveHybridDither(h, src, strength)
            [] OTHER -> Outcome(h, Buffer(src))

(***************************************************************************)
(* ascii-converter.ts: the ramps and the palettes.  A string is the        *)
(* sequence of its characters' code points.                                *)
(***************************************************************************)
RampMinimal ==
  <<
    32, 46, 58, 45, 61, 43, 42, 35, 37, 64
  >>

RampSmooth ==
  <<
    32, 46, 39, 96, 94, 34, 44, 58, 59, 73, 108, 33, 105, 126, 43, 95, 45,
    63, 93, 91, 125, 123, 49, 41, 40, 124, 92, 47, 116, 102, 106, 114, 120,
    110, 117, 118, 99, 122, 88, 89, 85, 74, 67, 76, 81, 48, 79, 90, 109, 119,
    113, 112, 100, 98, 107, 104, 97, 111, 42, 35, 77, 87, 38, 56, 37, 66, 64,
    36
  >>

RampClassic ==
  <<
    32, 46, 44, 58, 59, 111, 120, 37, 35, 64
  >>

RampDense ==
  <<
    32, 96, 46, 45, 39, 58, 95, 44, 94, 61, 59, 62, 60, 43, 33, 114, 99, 42,
    47, 122, 63, 115, 76, 84, 118, 41, 74, 55, 40, 124, 70, 105, 123, 125,
    67, 51, 116, 108, 102, 49, 117, 110, 120, 122, 106, 89, 53, 86, 50, 119,
    113, 107, 111, 97, 104, 100, 48, 101, 112, 57, 103, 121, 54, 80, 98, 52,
    107, 109, 56, 82, 68, 90, 88, 85, 66, 79, 35, 77, 87, 38, 56, 37, 66, 64,
    36
  >>

RampBlocks ==
  <<
    32, 9617, 9618, 9619, 9608
  >>

RampAnsiSafe ==
  <<
    32, 46, 58, 45, 61, 35, 64
  >>

RampAnsiHalf ==
  <<
    32, 9604, 9608
  >>

RampAnsiSimple ==
  <<
    32, 9618, 9608
  >>

RampAnsiClassic ==
  <<
    32, 46, 9618, 9619, 9608
  >>

RampAnsiMinimal ==
  <<
    32, 9608
  >>

ASCII_SETS ==
  [k \in {"minimal", "smooth", "classic", "dense", "blocks", "ansi-safe", "ansi-half", "ansi-simple", "ansi-classic", "ansi-minimal"} |->
     CASE k = "minimal" -> RampMinimal
       [] k = "smooth" -> RampSmooth
       [] k = "classic" -> RampClassic
       [] k = "dense" -> RampDense
       [] k = "blocks" -> RampBlocks
       [] k = "ansi-safe" -> RampAnsiSafe
       [] k = "ansi-half" -> RampAnsiHalf
       [] k = "ansi-simple" -> RampAnsiSimple
       [] k = "ansi-classic" -> RampAnsiClassic
       [] k = "ansi-minimal" -> RampAnsiMinimal]

\* ASCII_SETS[asciiSet]: undefined for a key the table does not hold
NoString == <<-1>>
LookupAsciiSet(asciiSet) ==
  IF asciiSet \in DOMAIN ASCII_SETS THEN ASCII_SETS[asciiSet] ELSE NoString

ANSI_16_COLORS ==
  << <<0, 0, 0>>, <<128, 0, 0>>, <<0, 128, 0>>, <<128, 128, 0>>,
     <<0, 0, 128>>, <<128, 0, 128>>, <<0, 128, 128>>, <<192, 192, 192>>,
     <<128, 128, 128>>, <<255, 0, 0>>, <<0, 255, 0>>, <<255, 255, 0>>,
     <<0, 0, 255>>, <<255, 0, 255>>, <<0, 255, 255>>, <<255, 255, 255>> >>

\* generateAnsi256Palette(): the 16 colours, the 6x6x6 cube, 24 greys
generateAnsi256Palette ==
  LET level(v) == IF v = 0 THEN 0 ELSE 55 + v * 40
      cube == [i \in 1..216 |->
                 << level((i - 1) \div 36), level(((i - 1) \div 6) % 6), level((i - 1) % 6) >>]
      grey == [i \in 1..24 |-> << 8 + (i - 1) * 10, 8 + (i - 1) * 10, 8 + (i - 1) * 10 >>]
  IN ANSI_16_COLORS \o cube \o grey

(***************************************************************************)
(* ascii-converter.ts: tone mapping and glyph selection                    *)
(***************************************************************************)
\* the character a string has at an index computed as a number: undefined
\* (NoChar) outside the string and at NaN
NoChar == -1
CharAt(str, n) ==
  IF IsInteger(n) /\ n[1] >= 0 /\ n[1] < Len(str) THEN str[n[1] + 1] ELSE NoChar

\* brightnessToAscii: the `index` it computes, asciiSet a string
brightnessToAsciiIndexUnclamped(brightness, asciiSet, invertBrightness) ==
  LET normalizedBrightness == IF invertBrightness THEN NumSub(Num(255), brightness) ELSE brightness
  IN MathFloor(NumMul(NumDiv(normalizedBrightness, Num(255)), Num(Len(asciiSet) - 1)))
brightnessToAsciiIndex(brightness, asciiSet, invertBrightness) ==
  LET clamped == MathMax(Num(0), MathMin(Num(255), brightness))
      normalizedBrightness == IF invertBrightness THEN NumSub(Num(255), clamped) ELSE clamped
  IN MathFloor(NumMul(NumDiv(normalizedBrightness, Num(255)), Num(Len(asciiSet) - 1)))

\* brightnessToAscii(brightness, asciiSet, invertBrightness), asciiSet a string
brightnessToAsciiOffByOne(brightness, asciiSet, invertBrightness) ==
  LET clamped == MathMax(Num(0), MathMin(Num(255), brightness))
      normalizedBrightness == IF invertBrightness THEN NumSub(Num(255), clamped) ELSE clamped
      index == MathFloor(NumMul(NumDiv(normalizedBrightness, Num(255)), Num(Len(asciiSet))))
  IN CharAt(asciiSet, index)
brightnessToAsciiAlwaysInverted(brightness, asciiSet, invertBrightness) ==
  CharAt(asciiSet, brightnessToAsciiIndex(brightness, asciiSet, TRUE))
brightnessToAsciiNeverInverted(brightness, asciiSet, invertBrightness) ==
  CharAt(asciiSet, brightnessToAsciiIndex(brightness, asciiSet, FALSE))
brightnessToAscii(brightness, asciiSet, invertBrightness) ==
  CharAt(asciiSet, brightnessToAsciiIndex(brightness, asciiSet, invertBrightness))

\* getPixelBrightness(r, g, b)
getPixelBrightness(r, g, b) ==
  MathRound(NumAdd(NumAdd(NumMul(Frac(299, 1000), r), NumMul(Frac(587, 1000), g)),
                   NumMul(Frac(114, 1000), b)))

\* the square of the distance findClosestAnsiColor takes the root of; the
\* root keeps the order of the distances, and NaN stays NaN
SquaredDistance(r, g, b, entry) ==
  LET dr == NumSub(r, Num(entry[1]))
      dg == NumSub(g, Num(entry[2]))
      db == NumSub(b, Num(entry[3]))
  IN NumAdd(NumAdd(NumMul(dr, dr), NumMul(dg, dg)), NumMul(db, db))

\* findClosestAnsiColor: the loop's iteration on the palette's i-th entry
\* (0-based), from and to the pair <<minDistance, closestIndex>>
ClosestStepLastWins(r, g, b, palette, i, st) ==
  LET distance == SquaredDistance(r, g, b, palette[i + 1])
  IN IF NumLe(distance, st[1]) THEN <<distance, i>> ELSE st
ClosestStep(r, g, b, palette, i, st) ==
  LET distance == SquaredDistance(r, g, b, palette[i + 1])
  IN IF NumLt(distance, st[1]) THEN <<distance, i>> ELSE st

\* findClosestAnsiColor: the iterations lo..hi-1 of the loop, in order; they
\* are taken as a first half followed by a second half
RECURSIVE ClosestLoop(_, _, _, _, _, _, _)
ClosestLoop(r, g, b, palette, lo, hi, st) ==
  IF hi <= lo THEN st
  ELSE IF hi = lo + 1 THEN ClosestStep(r, g, b, palette, lo, st)
  ELSE LET mid == (lo + hi) \div 2
           st1 == ClosestLoop(r, g, b, palette, lo, mid, st)
       IN IF Done(st1) THEN ClosestLoop(r, g, b, palette, mid, hi, st1) ELSE st1

findClosestAnsiColor(r, g, b, palette) ==
  ClosestLoop(r, g, b, palette, 0, Len(palette), <<PosInf, 0>>)[2]

\* an AnsiPixel; bgColor of NoColor is undefined
NoColor == -1
BlockGlyph == 9619
Space == 32
Newline == 10
AnsiPixel(char, fgColor, bgColor, rgb) ==
  [char |-> char, fgColor |-> fgColor, bgColor |-> bgColor, rgb |-> rgb]

\* the same with a mean of exactly 128 counted as dark
rgbToAnsiPixelDarkAt128(r, g, b, asciiChars, colorPalette, invertBrightness) ==
  LET brightness == getPixelBrightness(r, g, b)
      char == brightnessToAscii(brightness, asciiChars, invertBrightness)
      palette == IF colorPalette = "ansi-16" THEN ANSI_16_COLORS ELSE generateAnsi256Palette
      colorIndex == findClosestAnsiColor(r, g, b, palette)
      avgColor == NumDiv(NumAdd(NumAdd(r, g), b), Num(3))
  IN IF NumLe(avgColor, Num(128))
     THEN AnsiPixel(IF char = Space THEN Space ELSE BlockGlyph, 0, colorIndex, <<r, g, b>>)
     ELSE AnsiPixel(char, colorIndex, NoColor, <<r, g, b>>)

\* rgbToAnsiPixel(r, g, b, asciiChars, true, colorPalette, invertBrightness)
rgbToAnsiPixel(r, g, b, asciiChars, colorPalette, invertBrightness) ==
  LET brightness == getPixelBrightness(r, g, b)
      char == brightnessToAscii(brightness, asciiChars, invertBrightness)
      palette == IF colorPalette = "ansi-16" THEN ANSI_16_COLORS ELSE generateAnsi256Palette
      colorIndex == findClosestAnsiColor(r, g, b, palette)
      avgColor == NumDiv(NumAdd(NumAdd(r, g), b), Num(3))
  IN IF NumLt(avgColor, Num(128))
     THEN AnsiPixel(IF char = Space THEN Space ELSE BlockGlyph, 0, colorIndex, <<r, g, b>>)
     ELSE AnsiPixel(char, colorIndex, NoColor, <<r, g, b>>)

\* adjustBrightness(value, contrast, brightness)
adjustBrightness(value, contrast, brightness) ==
  LET adjusted == NumAdd(NumAdd(NumMul(NumSub(value, Num(128)), contrast), Num(128)), brightness)
  IN MathMax(Num(0), MathMin(Num(255), adjusted))

\* what `ascii += char` appends: undefined is spelled out
UndefinedText == <<117, 110, 100, 101, 102, 105, 110, 101, 100>>
CharText(char) == IF char = NoChar THEN UndefinedText ELSE <<char>>

\* the three colour bytes of the pixel (x, y) of the resized buffer
PixelAt(data, x, y, width) ==
  LET index == NumMul(NumAdd(NumMul(Num(y), width), Num(x)), Num(4))
  IN [r |-> ToNumber(ReadAtNum(data, index)),
      g |-> ToNumber(ReadAtNum(data, NumAdd(index, Num(1)))),
      b |-> ToNumber(ReadAtNum(data, NumAdd(index, Num(2))))]

\* convertToAscii, coloured path: the cell of the pixel (x, y)
AnsiCell(data, x, y, width, asciiChars, options, invertBrightness) ==
  LET p == PixelAt(data, x, y, width)
      avgBrightness == getPixelBrightness(p.r, p.g, p.b)
      adjustedBrightness == adjustBrightness(avgBrightness, options.contrast, options.brightness)
      brightnessFactor == OrElse(NumDiv(adjustedBrightness, avgBrightness), Num(1))
      r == MathMax(Num(0), MathMin(Num(255), NumMul(p.r, brightnessFactor)))
      g == MathMax(Num(0), MathMin(Num(255), NumMul(p.g, brightnessFactor)))
      b == MathMax(Num(0), MathMin(Num(255), NumMul(p.b, brightnessFactor)))
  IN IF Done(brightnessFactor) /\ Done(r) /\ Done(g) /\ Done(b)
     THEN rgbToAnsiPixel(r, g, b, asciiChars, options.colorPalette, invertBrightness)
     ELSE NoChar

\* convertToAscii, monochrome path: the character of the pixel (x, y)
AsciiChar(data, x, y, width, asciiChars, options, invertBrightness) ==
  LET p == PixelAt(data, x, y, width)
      pixelBrightness == adjustBrightness(getPixelBrightness(p.r, p.g, p.b),
                                          options.contrast, options.brightness)
  IN IF Done(pixelBrightness)
     THEN brightnessToAscii(pixelBrightness, asciiChars, invertBrightness)
     ELSE NoChar

\* convertToAscii, monochrome path: the text the loops append for the pixels
\* lo..hi-1 in scan order, taken as a first half followed by a second half;
\* a newline closes each row
RECURSIVE AsciiLoop(_, _, _, _, _, _, _, _)
AsciiLoop(data, width, cols, asciiChars, options, invertBrightness, lo, hi) ==
  IF hi <= lo THEN <<>>
  ELSE IF hi = lo + 1
    THEN LET y == lo \div cols
             x == lo % cols
             char == AsciiChar(data, x, y, width, asciiChars, options, invertBrightness)
         IN CharText(char) \o (IF x = cols - 1 THEN <<Newline>> ELSE <<>>)
  ELSE LET mid == (lo + hi) \div 2
           head == AsciiLoop(data, width, cols, asciiChars, options, invertBrightness, lo, mid)
       IN IF Done(head)
          THEN head \o AsciiLoop(data, width, cols, asciiChars, options, invertBrightness,
                                 mid, hi)
          ELSE head

\* the monochrome text of `rows` rows of `cols` pixels; a row without pixels
\* is its newline alone
AsciiText(data, width, cols, rows, asciiChars, options, invertBrightness) ==
  IF cols <= 0 THEN [y \in 1..rows |-> Newline]
  ELSE AsciiLoop(data, width, cols, asciiChars, options, invertBrightness, 0,
                 IF rows <= 0 THEN 0 ELSE cols * rows)

Text(str) == [kind |-> "string", str |-> str]
Grid(rows) == [kind |-> "grid", rows |-> rows]

\* artStyle === 'ansi' && useColors
IsColouredAnyStyle(artStyle, useColors) == useColors
IsColoured(artStyle, useColors) == artStyle = "ansi" /\ useColors

\* convertToAscii(imageData, options), imageData = h[src].  Reading .length
\* of an undefined ramp throws at the first pixel converted
convertToAscii(h, src, options) ==
  LET asciiChars == LookupAsciiSet(options.asciiSet)
      invertBrightness == options.colorScheme = "black-on-white"
      dimensions == calculateDimensions(h[src].width, h[src].height, options.width,
                                        options.maintainAspectRatio, options.charAspectRatio)
      resized == resizeImageData(h, src, dimensions.width, dimensions.height)
      data == resized.heap[resized.ret.ref].data
      rows == LoopCount(dimensions.height)
      cols == LoopCount(dimensions.width)
  IN IF resized.ret.kind # "buffer" THEN resized
     ELSE IF rows > 0 /\ cols > 0 /\ asciiChars = NoString
       THEN Outcome(resized.heap, Throw("TypeError"))
     ELSE IF IsColoured(options.artStyle, options.useColors)
       THEN Outcome(resized.heap,
              Grid([y \in 1..rows |-> [x \in 1..cols |->
                      AnsiCell(data, x - 1, y - 1, dimensions.width, asciiChars, options,
                               invertBrightness)]]))
     ELSE Outcome(resized.heap,
            Text(AsciiText(data, dimensions.width, cols, rows, asciiChars, options,
                           invertBrightness)))

(***************************************************************************)
(* The inputs explored                                                     *)
(***************************************************************************)
\* a source buffer has at most MaxPixels pixels; convertToAscii is explored
\* on the sources of at most MaxSourcePixels pixels
MaxPixels == 4
MaxSourcePixels == 2
\* resizeImageData is called with targets -1..MaxTarget, convertToAscii with
\* widths -1..MaxTargetWidth, calculateDimensions with sizes 0..MaxOriginal
MaxTarget == 3
MaxTargetWidth == 2
MaxOriginal == 3

\* the RGBA values a source pixel takes: black, white, a mid-tone
Colours == << <<0, 0, 0, 255>>, <<255, 255, 255, 255>>, <<200, 100, 50, 128>> >>

\* the w x h buffer whose k-th pixel has the colour f[k]
ImageOf(w, h, f) ==
  ImageData([i \in 1..(4 * w * h) |-> Colours[f[((i - 1) \div 4) + 1]][((i - 1) % 4) + 1]],
            Num(w), Num(h))

Sizes(maxPixels) ==
  {d \in (0..maxPixels) \X (0..maxPixels) : d[1] * d[2] <= maxPixels}

Images(maxPixels) ==
  UNION {{ImageOf(d[1], d[2], f) : f \in [1..(d[1] * d[2]) -> 1..Len(Colours)]} :
         d \in Sizes(maxPixels)}

PixelCount(img) == Len(img.data) \div 4

Algorithms ==
  {"none", "floyd-steinberg", "floyd-steinberg-serpentine", "jarvis-judice-ninke",
   "atkinson", "stucki", "burkes", "sierra", "sierra-lite", "ordered-2x2",
   "ordered-4x4", "ordered-8x8", "blue-noise", "adaptive-hybrid"}

\* a value outside the DitheringAlgorithm type, as an untyped caller passes
UnknownAlgorithm == "no-such-algorithm"
UnknownAsciiSet == "no-such-set"

Strengths == {Num(0), Frac(1, 2), Num(1)}

\* the values Math.random() returns
RandomValues == {Num(0), Frac(1, 2)}
RandomFields(img, algorithm) ==
  IF algorithm = "blue-noise"
  THEN [1..(img.width[1] * img.height[1]) -> RandomValues]
  ELSE {<<>>}

\* the options convertToAscii is called with: every combination of values
\* with the 16-colour palette, and the 256-colour palette (which only the
\* coloured path reads) with the page's contrast, cell ratio and scheme
ConversionOptions ==
  [width : {Num(w) : w \in -1..MaxTargetWidth},
   asciiSet : {"minimal", "ansi-minimal", UnknownAsciiSet},
   artStyle : {"ascii", "ansi"},
   maintainAspectRatio : BOOLEAN,
   contrast : {Num(1), Num(2)},
   brightness : {Num(0), Num(-100)},
   charAspectRatio : {Frac(1, 2), Num(1)},
   colorScheme : {"white-on-black", "black-on-white"},
   useColors : BOOLEAN,
   colorPalette : {"ansi-16"}]
  \cup
  [width : {Num(w) : w \in -1..MaxTargetWidth},
   asciiSet : {"minimal", "ansi-minimal", UnknownAsciiSet},
   artStyle : {"ascii", "ansi"},
   maintainAspectRatio : BOOLEAN,
   contrast : {Num(1)},
   brightness : {Num(0), Num(-100)},
   charAspectRatio : {Frac(1, 2)},
   colorScheme : {"white-on-black"},
   useColors : BOOLEAN,
   colorPalette : {"ansi-256"}]

(***************************************************************************)
(* The state machine: a caller holding one source buffer, heap[1], calls   *)
(* the library on it; `call` is the call made and what it returned.  The   *)
(* caller keeps the source and the buffer returned, the rest is garbage;   *)
(* it drops the result before it calls again, as the page's useMemo does.  *)
(* `pageOptions` is the page's options state, which the control panel      *)
(* changes and the page's own conversion reads.                            *)
(***************************************************************************)
NoCall == [op |-> "none", args |-> <<>>, ret |-> [kind |-> "none"]]

Collect(out) ==
  IF out.ret.kind = "buffer" /\ out.ret.ref # 1
  THEN [heap |-> <<out.heap[1], out.heap[out.ret.ref]>>, ret |-> Buffer(2)]
  ELSE [heap |-> <<out.heap[1]>>, ret |-> out.ret]

Return(op, args, out) ==
  /\ heap' = Collect(out).heap
  /\ call' = [op |-> op, args |-> args, ret |-> Collect(out).ret]
  /\ UNCHANGED pageOptions

\* useState<ExtendedOptions>({...}): the options the page starts with
InitialOptions ==
  [width |-> Num(80), asciiSet |-> "minimal", artStyle |-> "ascii",
   maintainAspectRatio |-> TRUE, fontSize |-> Num(10), contrast |-> Num(1),
   brightness |-> Num(0), charAspectRatio |-> Frac(1, 2),
   ditheringAlgorithm |-> "none", ditheringStrength |-> Frac(1, 2),
   colorScheme |-> "white-on-black", useColors |-> FALSE, colorPalette |-> "ansi-16"]

Init ==
  /\ heap \in {<<img>> : img \in Images(MaxPixels)}
  /\ call = NoCall
  /\ pageOptions = InitialOptions

ApplyDithering ==
  /\ call = NoCall
  /\ \E algorithm \in Algorithms \cup {UnknownAlgorithm}, strength \in Strengths :
       \E random \in RandomFields(heap[1], algorithm) :
         LET options == [algorithm |-> algorithm, strength |-> strength]
         IN Return("applyDithering", options, applyDithering(heap, 1, options, random))

ResizeImageData ==
  /\ call = NoCall
  /\ \E targetWidth \in -1..MaxTarget, targetHeight \in -1..MaxTarget :
       Return("resizeImageData",
              [targetWidth |-> Num(targetWidth), targetHeight |-> Num(targetHeight)],
              resizeImageData(heap, 1, Num(targetWidth), Num(targetHeight)))

ConvertToAscii ==
  /\ call = NoCall
  /\ PixelCount(heap[1]) <= MaxSourcePixels
  /\ \E options \in ConversionOptions :
       Return("convertToAscii", options, convertToAscii(heap, 1, options))

\* calculateDimensions on sizes up to MaxOriginal and on the 200 x 100 image
\* at 80 columns; a character aspect ratio left out is the default 0.5
OriginalWidths == (0..MaxOriginal) \cup {200}
OriginalHeights == (0..MaxOriginal) \cup {100}
TargetWidths == (-1..MaxTarget) \cup {80}
CharAspectRatios == {Frac(1, 2), Num(1), Frac(3, 5)}

Dimensions(d) == [kind |-> "dimensions", width |-> d.width, height |-> d.height]

CalculateDimensions ==
  /\ call = NoCall
  /\ \E originalWidth \in OriginalWidths, originalHeight \in OriginalHeights,
        targetWidth \in TargetWidths, maintainAspectRatio \in BOOLEAN,
        charAspectRatio \in CharAspectRatios :
       Return("calculateDimensions",
              [originalWidth |-> Num(originalWidth), originalHeight |-> Num(originalHeight),
               targetWidth |-> Num(targetWidth), maintainAspectRatio |-> maintainAspectRatio,
               charAspectRatio |-> charAspectRatio],
              Outcome(heap, Dimensions(calculateDimensions(
                Num(originalWidth), Num(originalHeight), Num(targetWidth),
                maintainAspectRatio, charAspectRatio))))

\* brightnessToAscii on the luminances -1..MaxBrightness, a half-way value and
\* the infinities, with every ramp; the index computed is kept with the
\* character returned
MaxBrightness == 256
Brightnesses ==
  {Num(v) : v \in -1..MaxBrightness} \cup {Frac(255, 2), Frac(1, 3), PosInf, NegInf, NaN}

BrightnessToAscii ==
  /\ call = NoCall
  /\ \E brightness \in Brightnesses, asciiSet \in DOMAIN ASCII_SETS,
        invertBrightness \in BOOLEAN :
       Return("brightnessToAscii",
              [brightness |-> brightness, asciiSet |-> asciiSet,
               invertBrightness |-> invertBrightness],
              Outcome(heap,
                [kind |-> "char",
                 char |-> brightnessToAscii(brightness, ASCII_SETS[asciiSet],
                                            invertBrightness),
                 index |-> brightnessToAsciiIndex(brightness, ASCII_SETS[asciiSet],
                                                  invertBrightness)]))

\* convertToAscii on the sources of one colour: black, white, mid-grey, red
\* and a near-black of luminance 0, at the sizes up to MaxUniform x MaxUniform,
\* and the 10 x 10 mid-grey; as many columns as the source is wide, every
\* ramp, and contrast and brightness neutral, lifting or lowering (the
\* 10 x 10 source with the ramp "minimal", contrast 1 and brightness 0)
MaxUniform == 2
UniformColours ==
  << <<0, 0, 0, 255>>, <<255, 255, 255, 255>>, <<128, 128, 128, 255>>,
     <<255, 0, 0, 255>>, <<1, 0, 1, 255>> >>

UniformImage(w, h, c) ==
  ImageData([i \in 1..(4 * w * h) |-> UniformColours[c][((i - 1) % 4) + 1]], Num(w), Num(h))

InitUniform ==
  /\ heap \in {<<UniformImage(w, h, c)>> : w \in 1..MaxUniform, h \in 1..MaxUniform,
                                          c \in 1..Len(UniformColours)}
             \cup {<<UniformImage(10, 10, 3)>>}
  /\ call = NoCall
  /\ pageOptions = InitialOptions

ConvertUniform ==
  /\ call = NoCall
  /\ \E asciiSet \in IF PixelCount(heap[1]) > MaxUniform * MaxUniform
                      THEN {"minimal"} ELSE DOMAIN ASCII_SETS,
        artStyle \in {"ascii", "ansi"}, maintainAspectRatio \in BOOLEAN,
        adjustment \in IF PixelCount(heap[1]) > MaxUniform * MaxUniform
                       THEN {<<Num(1), Num(0)>>}
                       ELSE {<<Num(1), Num(0)>>, <<Num(1), Num(50)>>,
                             <<Frac(1, 2), Num(0)>>, <<Num(2), Num(-100)>>},
        charAspectRatio \in {Frac(1, 2), Num(1)},
        colorScheme \in {"white-on-black", "black-on-white"}, useColors \in BOOLEAN :
       LET options == [width |-> heap[1].width, asciiSet |-> asciiSet,
                       artStyle |-> artStyle, maintainAspectRatio |-> maintainAspectRatio,
                       contrast |-> adjustment[1], brightness |-> adjustment[2],
                       charAspectRatio |-> charAspectRatio, colorScheme |-> colorScheme,
                       useColors |-> useColors, colorPalette |-> "ansi-16"]
       IN Return("convertToAscii", options, convertToAscii(heap, 1, options))

\* findClosestAnsiColor on channel values at, between and off the palettes'
\* levels, with either palette
Palettes == [k \in {"ansi-16", "ansi-256"} |->
               IF k = "ansi-16" THEN ANSI_16_COLORS ELSE generateAnsi256Palette]

FindClosestAnsiColor ==
  /\ call = NoCall
  /\ \E rgb \in [{"r", "g", "b"} -> {Num(0), Num(64), Num(95), Num(128), Num(135),
                                      Frac(383, 2), Num(255)}],
        palette \in DOMAIN Palettes :
       Return("findClosestAnsiColor",
              [r |-> rgb.r, g |-> rgb.g, b |-> rgb.b, palette |-> palette],
              Outcome(heap,
                [kind |-> "index",
                 index |-> findClosestAnsiColor(rgb.r, rgb.g, rgb.b, Palettes[palette])]))

\* applyDithering with the ordered algorithms, which the sources of one
\* colour, the 10 x 10 one among them, take as well
OrderedDithering ==
  /\ call = NoCall
  /\ \E algorithm \in {"ordered-2x2", "ordered-4x4", "ordered-8x8"}, strength \in Strengths :
       LET options == [algorithm |-> algorithm, strength |-> strength]
       IN Return("applyDithering", options, applyDithering(heap, 1, options, <<>>))

\* getRecommendedDithering on the character counts 0..MaxCharacterCount and
\* two counts between whole numbers; useColors left out is false
MaxCharacterCount == 92

GetRecommendedDithering ==
  /\ call = NoCall
  /\ \E artStyle \in {"ascii", "ansi"}, useColors \in BOOLEAN,
        characterCount \in {Num(n) : n \in 0..MaxCharacterCount}
                           \cup {Frac(11, 2), Frac(99, 2)} :
       Return("getRecommendedDithering",
              [artStyle |-> artStyle, characterCount |-> characterCount,
               useColors |-> useColors],
              Outcome(heap,
                [kind |-> "algorithm",
                 algorithm |-> getRecommendedDithering(artStyle, characterCount, useColors)]))

\* applyDithering with an algorithm that pushes error on, followed pixel by
\* pixel: the call copies the buffer (newData = heap[call.ret.ref]), then runs
\* the body of its pixel loops once for the k-th pixel of its scan, then
\* returns.  A running call keeps the pixel it has just left (x, y) and the
\* array as it was before that pixel (before)
DitherStep ==
  /\ UNCHANGED pageOptions
  /\ \/ /\ call = NoCall
        /\ \E algorithm \in {"floyd-steinberg", "floyd-steinberg-serpentine",
                             "jarvis-judice-ninke", "stucki", "atkinson", "burkes",
                             "sierra", "sierra-lite", "adaptive-hybrid"},
              strength \in Strengths \ {Num(0)} :
             LET a == Uint8ClampedArrayFrom(heap, 1)
             IN /\ heap' = a.heap
                /\ call' = [op |-> "applyDithering",
                            args |-> [algorithm |-> algorithm, strength |-> strength],
                            ret |-> [kind |-> "running", ref |-> a.ref, k |-> 0,
                                     x |-> 0, y |-> 0, before |-> a.heap[a.ref].data]]
     \/ /\ call.ret.kind = "running"
        /\ call.ret.k < heap[1].width[1] * heap[1].height[1]
        /\ LET algorithm == call.args.algorithm
               strength == call.args.strength
               width == heap[1].width[1]
               height == heap[1].height[1]
               nd == heap[call.ret.ref].data
               y == call.ret.k \div width
               isRightToLeft == algorithm = "floyd-steinberg-serpentine" /\ y % 2 = 1
               x == ScanX(call.ret.k % width, y, algorithm = "floyd-steinberg-serpentine", width)
               nd1 == CASE algorithm \in {"floyd-steinberg", "floyd-steinberg-serpentine"} ->
                             DiffuseChannels(nd, FloydSteinbergKernel, x, y, 0, strength,
                                             isRightToLeft, width, height)
                        [] algorithm = "jarvis-judice-ninke" ->
                             DiffuseChannels(nd, JarvisJudiceNinkeKernel, x, y, 0, strength,
                                             FALSE, width, height)
                        [] algorithm = "stucki" ->
                             DiffuseChannels(nd, StuckiKernel, x, y, 0, strength,
                                             FALSE, width, height)
                        [] algorithm = "atkinson" ->
                             StmtChannels(nd, AtkinsonStmts, x, y, 0, strength, width, height)
                        [] algorithm = "burkes" ->
                             StmtChannels(nd, BurkesStmts, x, y, 0, strength, width, height)
                        [] algorithm = "sierra" ->
                             StmtChannels(nd, SierraStmts, x, y, 0, strength, width, height)
                        [] algorithm = "sierra-lite" ->
                             StmtChannels(nd, SierraLiteStmts, x, y, 0, strength, width, height)
                        [] algorithm = "adaptive-hybrid" ->
                             AdaptiveChannels(nd,
                               calculateLocalContrast(heap[1].data, x, y, width, height),
                               x, y, 0, strength, width, height)
           IN /\ heap' = [heap EXCEPT ![call.ret.ref] = ImageData(nd1, NaN, NaN)]
              /\ call' = [call EXCEPT !.ret = [kind |-> "running", ref |-> call.ret.ref,
                                               k |-> call.ret.k + 1, x |-> x, y |-> y,
                                               before |-> nd]]
     \/ /\ call.ret.kind = "running"
        /\ call.ret.k >= heap[1].width[1] * heap[1].height[1]
        /\ heap' = [heap EXCEPT ![call.ret.ref] =
                      ImageData(heap[call.ret.ref].data, heap[1].width, heap[1].height)]
        /\ call' = [call EXCEPT !.ret = Buffer(call.ret.ref)]

\* handleImageLoad(imageData, file): the page takes the buffer the upload
\* decoded as its source.  The buffer loaded is 8 x 2: its neighbouring
\* pixels differ in brightness by little (left), by a fifth of the range
\* (second column) and by more than a third (from the third column on)
HandleImageLoad ==
  /\ call = NoCall
  /\ heap' = <<ImageData(<<90, 100, 110, 255, 140, 110, 80, 255,
                          160, 160, 160, 255, 250, 250, 250, 255,
                          40, 40, 40, 255, 220, 200, 180, 255,
                          0, 0, 0, 255, 255, 255, 255, 255,
                          105, 105, 105, 255, 100, 115, 130, 255,
                          165, 165, 165, 255, 250, 250, 250, 255,
                          40, 40, 40, 255, 200, 100, 50, 128,
                          255, 255, 255, 255, 0, 0, 0, 255>>, Num(8), Num(2))>>
  /\ UNCHANGED <<call, pageOptions>>

\* the Style select changing the style alone
ArtStyleChangeStyleOnly ==
  /\ call = NoCall
  /\ \E newStyle \in {"ascii", "ansi"} :
       pageOptions' = [pageOptions EXCEPT !.artStyle = newStyle]
  /\ UNCHANGED <<heap, call>>

\* ControlPanel, the Style select's onChange: four calls of onOptionsChange,
\* which React applies together
ArtStyleChange ==
  /\ call = NoCall
  /\ \E newStyle \in {"ascii", "ansi"} :
       LET recommendedSet == IF newStyle = "ansi" THEN "blocks" ELSE "minimal"
           useColors == newStyle = "ansi"
           recommendedDithering ==
             getRecommendedDithering(newStyle, Num(Len(ASCII_SETS[recommendedSet])), useColors)
       IN pageOptions' = [pageOptions EXCEPT
                            !.artStyle = newStyle,
                            !.asciiSet = recommendedSet,
                            !.ditheringAlgorithm = recommendedDithering,
                            !.useColors = IF newStyle = "ansi" THEN TRUE ELSE @]
  /\ UNCHANGED <<heap, call>>

\* handleOptionsChange({[key]: value}), as the other controls of the panel
\* call it: a control sets its own key to one of the values it offers, and
\* only the controls the panel renders for the current options can be used.
\* Of the sliders, those of the width, the contrast and the dithering
\* strength are moved, to their lowest value or to a second one
HandleOptionsChange ==
  /\ call = NoCall
  /\ \/ \E key \in {k \in DOMAIN ASCII_SETS :
                       (k \in {"blocks", "ansi-safe", "ansi-half", "ansi-simple",
                               "ansi-classic", "ansi-minimal"})
                         <=> (pageOptions.artStyle = "ansi")} :
          pageOptions' = [pageOptions EXCEPT !.asciiSet = key]
     \/ \E value \in {Num(20), Num(80)} :
          pageOptions' = [pageOptions EXCEPT !.width = value]
     \/ \E value \in {Frac(1, 10), Num(1)} :
          pageOptions' = [pageOptions EXCEPT !.contrast = value]
     \/ /\ pageOptions.artStyle = "ascii"
        /\ \E value \in {"none", "floyd-steinberg", "atkinson", "ordered-4x4"} :
             pageOptions' = [pageOptions EXCEPT !.ditheringAlgorithm = value]
     \/ /\ pageOptions.artStyle = "ascii" /\ pageOptions.ditheringAlgorithm # "none"
        /\ \E value \in {Num(0), Frac(1, 2)} :
             pageOptions' = [pageOptions EXCEPT !.ditheringStrength = value]
     \/ /\ pageOptions.artStyle = "ansi" /\ pageOptions.useColors
        /\ \E value \in {"ansi-16", "ansi-256"} :
             pageOptions' = [pageOptions EXCEPT !.colorPalette = value]
     \/ /\ pageOptions.artStyle = "ascii"
        /\ \E value \in {"white-on-black", "black-on-white"} :
             pageOptions' = [pageOptions EXCEPT !.colorScheme = value]
  /\ UNCHANGED <<heap, call>>

\* the page's useMemo: the text art of the source under the options.  No
\* source (a buffer without pixels stands for null) gives '', and so does an
\* exception.  The buffers of the stages stay on the heap; `dithered` is the
\* buffer applyDithering returned, 0 when it was not called.  The conversion
\* is followed at widths up to MaxPageWidth columns
MaxPageWidth == 20

AsciiMemo ==
  /\ call = NoCall
  /\ NumLe(pageOptions.width, Num(MaxPageWidth))
  /\ \E shouldApplyDithering \in
          {/\ pageOptions.ditheringAlgorithm # "none"
           /\ NumGt(pageOptions.ditheringStrength, Num(0))
           /\ ~(pageOptions.artStyle = "ansi" /\ pageOptions.useColors)} :
       \E processedImageData \in
            {IF shouldApplyDithering
             THEN applyDithering(heap, 1, [algorithm |-> pageOptions.ditheringAlgorithm,
                                           strength |-> pageOptions.ditheringStrength], <<>>)
             ELSE Outcome(heap, Buffer(1))} :
         \E converted \in
              {IF processedImageData.ret.kind # "buffer" THEN processedImageData
               ELSE convertToAscii(processedImageData.heap, processedImageData.ret.ref,
                                   pageOptions)} :
           /\ heap' = IF PixelCount(heap[1]) = 0 THEN heap ELSE converted.heap
           /\ call' = [op |-> "ascii", args |-> pageOptions,
                       ret |-> [kind |-> "ascii",
                                ascii |-> IF PixelCount(heap[1]) = 0
                                             \/ converted.ret.kind = "throw"
                                          THEN Text(<<>>) ELSE converted.ret,
                                dithered |-> IF shouldApplyDithering /\ PixelCount(heap[1]) # 0
                                             THEN processedImageData.ret.ref ELSE 0]]
  /\ UNCHANGED pageOptions

\* the caller drops the result of the call that has returned
Release ==
  /\ call # NoCall
  /\ call.ret.kind # "running"
  /\ heap' = <<heap[1]>>
  /\ call' = NoCall
  /\ UNCHANGED pageOptions

Next ==
  \/ ApplyDithering \/ ResizeImageData \/ ConvertToAscii \/ CalculateDimensions
  \/ BrightnessToAscii \/ ConvertUniform \/ FindClosestAnsiColor \/ OrderedDithering
  \/ GetRecommendedDithering \/ DitherStep \/ HandleImageLoad
  \/ ArtStyleChange \/ HandleOptionsChange \/ AsciiMemo
  \/ Release

Spec == Init /\ [][Next]_vars

\* the calls that take a buffer
SpecStages ==
  Init /\ [][ApplyDithering \/ ResizeImageData \/ ConvertToAscii \/ Release]_vars

\* calculateDimensions takes no buffer: the caller holds an empty one
InitDims ==
  /\ heap = <<ImageOf(0, 0, <<>>)>>
  /\ call = NoCall
  /\ pageOptions = InitialOptions
SpecDims == InitDims /\ [][CalculateDimensions \/ Release]_vars

SpecDither == Init /\ [][ApplyDithering \/ Release]_vars
SpecResize == Init /\ [][ResizeImageData \/ Release]_vars
SpecConvert == Init /\ [][ConvertToAscii \/ Release]_vars

SpecUniform == InitUniform /\ [][ConvertUniform \/ Release]_vars
SpecOrdered == (Init \/ InitUniform) /\ [][OrderedDithering \/ Release]_vars

\* the functions that take no buffer
SpecRamp == InitDims /\ [][BrightnessToAscii \/ Release]_vars
SpecPalette == InitDims /\ [][FindClosestAnsiColor \/ Release]_vars
SpecRecommend == InitDims /\ [][GetRecommendedDithering \/ Release]_vars

\* the page: an image is loaded, the panel changes the options, the memo
\* converts
SpecPage ==
  InitDims /\ [][HandleImageLoad \/ ArtStyleChange \/ HandleOptionsChange
                 \/ AsciiMemo \/ Release]_vars

\* the error-diffusing algorithms, pixel by pixel
SpecScan == (Init \/ InitUniform) /\ [][HandleImageLoad \/ DitherStep \/ Release]_vars

(***************************************************************************)
(* The claims of the specification, on the call just made                  *)
(***************************************************************************)
\* the buffer the caller passed and the buffer the call returned
Source == heap[1]
Returned == heap[call.ret.ref]
SourceIsEmpty == Source.width = Num(0) /\ Source.height = Num(0)

Range(seq) == {seq[i] : i \in 1..Len(seq)}

\* C1: applyDithering returns a buffer equal to its input (width, height and
\* every byte) whenever the algorithm is 'none', whatever the strength, and
\* whenever the strength is 0, for every supported algorithm
C1_DitherIdentity ==
  (/\ call.op = "applyDithering"
   /\ call.args.algorithm \in Algorithms
   /\ (call.args.algorithm = "none" \/ call.args.strength = Num(0)))
  => (call.ret.kind = "buffer" /\ Returned = Source)

\* C1's case: an error-diffusion algorithm asked for at strength 0 on a
\* mid-tone image of two pixels or more
C1_Witness ==
  /\ call.op = "applyDithering"
  /\ call.args.algorithm = "floyd-steinberg"
  /\ call.args.strength = Num(0)
  /\ PixelCount(Source) >= 2
  /\ Source.data[1] = 200
  /\ call.ret.kind = "buffer"
  /\ Returned = Source

\* C2: no stage mutates its input: across every call of applyDithering,
\* resizeImageData and convertToAscii the bytes, width and height of the
\* buffer passed in stay what they were
C2_InputNotMutated == [][heap'[1] = heap[1]]_vars

\* C2's case: a dithering call has returned a buffer of its own whose bytes
\* differ from the source's
C2_Witness ==
  /\ call.op = "applyDithering"
  /\ call.ret.kind = "buffer"
  /\ call.ret.ref # 1
  /\ Returned.data # Source.data

\* C3: convertToAscii returns the cell grid if and only if artStyle is
\* 'ansi' and useColors is true, and a string for every other combination;
\* with a known ramp and a source that has pixels it returns one of the two
C3_ShapeByStyleAndColours ==
  call.op = "convertToAscii" =>
    /\ call.ret.kind \in {"string", "grid"} =>
         (call.ret.kind = "grid" <=> (call.args.artStyle = "ansi" /\ call.args.useColors))
    /\ (call.args.asciiSet # UnknownAsciiSet /\ PixelCount(Source) > 0) =>
         call.ret.kind \in {"string", "grid"}

\* C3's case: a grid with cells in it has been returned
C3_Witness ==
  /\ call.op = "convertToAscii"
  /\ call.ret.kind = "grid"
  /\ Len(call.ret.rows) >= 2
  /\ Len(call.ret.rows[1]) >= 2

\* the (W, H) of C4: calculateDimensions for the source size and the options
ClaimedDimensions ==
  calculateDimensions(Source.width, Source.height, call.args.width,
                      call.args.maintainAspectRatio, call.args.charAspectRatio)
\* the rows and columns that (W, H) stands for: none where it is negative or
\* no number
ClaimedRows ==
  LET H == ClaimedDimensions.height IN IF IsInteger(H) /\ H[1] > 0 THEN H[1] ELSE 0
ClaimedCols ==
  LET W == ClaimedDimensions.width IN IF IsInteger(W) /\ W[1] > 0 THEN W[1] ELSE 0

\* C4: the string of the monochrome path is exactly H rows, each row exactly
\* W characters of the selected ramp followed by one newline, so that it ends
\* in a newline and holds nothing but ramp characters and newlines
C4_MonochromeRows ==
  (call.op = "convertToAscii" /\ call.ret.kind = "string") =>
    LET str == call.ret.str
    IN /\ Len(str) = ClaimedRows * (ClaimedCols + 1)
       /\ \A i \in 1..Len(str) :
            IF i % (ClaimedCols + 1) = 0
            THEN str[i] = Newline
            ELSE str[i] \in Range(LookupAsciiSet(call.args.asciiSet))

\* C4's case: a string of several rows of several characters
C4_Witness ==
  /\ call.op = "convertToAscii"
  /\ call.ret.kind = "string"
  /\ ClaimedRows >= 2
  /\ ClaimedCols >= 2
  /\ Len(call.ret.str) = ClaimedRows * (ClaimedCols + 1)

\* C5: for all w, h >= 0 resizeImageData returns a buffer of width w, height
\* h and data length w*h*4, and a resize to the source's own width and height
\* reproduces the source byte for byte
C5_ResizeDimensions ==
  (/\ call.op = "resizeImageData"
   /\ call.args.targetWidth[1] >= 0
   /\ call.args.targetHeight[1] >= 0)
  => /\ call.ret.kind = "buffer"
     /\ Returned.width = call.args.targetWidth
     /\ Returned.height = call.args.targetHeight
     /\ Len(Returned.data) = call.args.targetWidth[1] * call.args.targetHeight[1] * 4
     /\ (call.args.targetWidth = Source.width /\ call.args.targetHeight = Source.height)
          => Returned.data = Source.data

\* C5's case: a source of several pixels resized to its own size, into a
\* buffer of the call's own
C5_Witness ==
  /\ call.op = "resizeImageData"
  /\ PixelCount(Source) >= 2
  /\ call.args.targetWidth = Source.width
  /\ call.args.targetHeight = Source.height
  /\ call.ret.kind = "buffer"
  /\ call.ret.ref # 1
  /\ Returned.data = Source.data

C7_Dimensions ==
  call.op = "calculateDimensions" =>
    LET ow == call.args.originalWidth[1]
        oh == call.args.originalHeight[1]
        tw == call.args.targetWidth[1]
        car == call.args.charAspectRatio
    IN /\ call.ret.width = Num(tw)
       /\ ~call.args.maintainAspectRatio => call.ret.height = Num(tw \div 2)
       /\ (call.args.maintainAspectRatio /\ ow > 0) =>
            call.ret.height = Num((tw * oh * car[1]) \div (ow * car[2]))
       /\ (call.args.maintainAspectRatio /\ ow = 200 /\ oh = 100 /\ tw = 80
           /\ car = Frac(1, 2)) => call.ret.height = Num(20)

\* C7's case: the 200 x 100 image at 80 columns and cell ratio 0.5
C7_Witness ==
  /\ call.op = "calculateDimensions"
  /\ call.args.originalWidth = Num(200)
  /\ call.args.originalHeight = Num(100)
  /\ call.args.targetWidth = Num(80)
  /\ call.args.maintainAspectRatio
  /\ call.args.charAspectRatio = Frac(1, 2)
  /\ call.ret.height = Num(20)

\* C8: a target of 0 in either axis makes resizeImageData return an empty
\* buffer, and every later stage takes an empty 0 x 0 buffer without raising
\* and gives empty output: applyDithering for each of the 13 algorithms other
\* than 'none' at a strength in (0, 1], convertToAscii with the empty string
\* or the empty grid
C8_EmptyBufferHandled ==
  /\ (/\ call.op = "resizeImageData"
      /\ call.args.targetWidth[1] >= 0
      /\ call.args.targetHeight[1] >= 0
      /\ (call.args.targetWidth[1] = 0 \/ call.args.targetHeight[1] = 0))
     => (call.ret.kind = "buffer" /\ Returned.data = <<>>)
  /\ (/\ call.op = "applyDithering"
      /\ SourceIsEmpty
      /\ call.args.algorithm \in Algorithms \ {"none"}
      /\ NumGt(call.args.strength, Num(0)))
     => (call.ret.kind = "buffer" /\ Returned.data = <<>>)
  /\ (/\ call.op = "convertToAscii"
      /\ SourceIsEmpty
      /\ call.args.asciiSet # UnknownAsciiSet)
     => \/ (call.ret.kind = "string" /\ call.ret.str = <<>>)
        \/ (call.ret.kind = "grid" /\ call.ret.rows = <<>>)

\* C9: convertToAscii and resizeImageData fail with an error, and return no
\* output, when the target column or row count is <= 0
C9_InvalidTargetFails ==
  /\ (/\ call.op = "resizeImageData"
      /\ (call.args.targetWidth[1] <= 0 \/ call.args.targetHeight[1] <= 0))
     => call.ret.kind = "throw"
  /\ (/\ call.op = "convertToAscii"
      /\ (NumLe(ClaimedDimensions.width, Num(0)) \/ NumLe(ClaimedDimensions.height, Num(0))))
     => call.ret.kind = "throw"

\* C10: a ramp key that is not in ASCII_SETS makes convertToAscii fail, and
\* an algorithm that is not in the known set makes applyDithering fail, for
\* every input buffer; neither falls back to returning the input or to a
\* default ramp
C10_UnknownKeyFails ==
  /\ (call.op = "applyDithering" /\ call.args.algorithm = UnknownAlgorithm)
     => call.ret.kind = "throw"
  /\ (call.op = "convertToAscii" /\ call.args.asciiSet = UnknownAsciiSet)
     => call.ret.kind = "throw"

\* C11: without inversion and for a luminance that is a number, the index
\* brightnessToAscii selects is floor((clamp(b, 0, 255) / 255) * (length - 1)),
\* lies in 0..length-1, and is at least the index of every luminance a <= b
\* on the same ramp.
C11_ClampedLuminance ==
  LET b == call.args.brightness
  IN IF b = PosInf THEN <<255, 1>>
     ELSE IF b = NegInf \/ b[1] < 0 THEN <<0, 1>>
     ELSE IF b[1] > 255 * b[2] THEN <<255, 1>>
     ELSE b
C11_RampIndexMonotonic ==
  (call.op = "brightnessToAscii" /\ ~call.args.invertBrightness
     /\ ~IsNaN(call.args.brightness)) =>
    LET ramp == ASCII_SETS[call.args.asciiSet]
        index == call.ret.index
        c == C11_ClampedLuminance
    IN /\ IsInteger(index)
       /\ index[1] \in 0..(Len(ramp) - 1)
       /\ index[1] = (c[1] * (Len(ramp) - 1)) \div (255 * c[2])
       /\ call.ret.char = ramp[index[1] + 1]
       /\ \A a \in Brightnesses :
            NumLe(a, call.args.brightness) =>
              LET ia == brightnessToAsciiIndex(a, ramp, FALSE)
              IN IsInteger(ia) /\ ia[1] <= index[1]
C11_Witness ==
  /\ call.op = "brightnessToAscii"
  /\ ~call.args.invertBrightness
  /\ call.args.asciiSet = "minimal"
  /\ call.args.brightness = Num(200)
  /\ call.ret.index = Num(7)
  /\ brightnessToAsciiIndex(Num(100), RampMinimal, FALSE) = Num(3)
\* the 10 x 10 mid-grey source converted in the monochrome path with the
\* ramp "minimal", 10 columns, contrast 1 and brightness 0
C12_Scenario ==
  /\ call.op = "convertToAscii"
  /\ Source = UniformImage(10, 10, 3)
  /\ call.args.asciiSet = "minimal"
  /\ call.args.width = Num(10)
  /\ call.args.contrast = Num(1) /\ call.args.brightness = Num(0)
  /\ ~(call.args.artStyle = "ansi" /\ call.args.useColors)
\* n rows of ten times the character '=' (the ramp's index 4), each closed
\* by a newline
C12_RowsOfEquals(n) ==
  [i \in 1..(11 * n) |-> IF i % 11 = 0 THEN Newline ELSE RampMinimal[4 + 1]]

\* C12 as stated: the scenario's output is 10 rows of 10 characters '='.
C12_TenRows ==
  C12_Scenario =>
    (call.ret.kind = "string" /\ call.ret.str = C12_RowsOfEquals(10))

\* C12 amended: every character of the scenario's output is '=', each row
\* has 10 of them, and the rows number floor(10 * charAspectRatio) with the
\* aspect ratio maintained (10 at ratio 1, 5 at ratio 0.5) and
\* floor(10 * 0.5) = 5 without.
C12_RowsByCellRatio ==
  C12_Scenario =>
    /\ call.ret.kind = "string"
    /\ call.ret.str =
         C12_RowsOfEquals(IF call.args.maintainAspectRatio
                          THEN (10 * call.args.charAspectRatio[1])
                                 \div call.args.charAspectRatio[2]
                          ELSE 5)
C12_Witness ==
  /\ C12_Scenario
  /\ call.args.maintainAspectRatio
  /\ call.args.charAspectRatio = Frac(1, 2)
  /\ call.ret.kind = "string"
  /\ Len(call.ret.str) = 55
  /\ RampMinimal[5] = 61
\* the glyphs of a conversion's output: the characters of the string other
\* than the newlines that close the rows, or the characters of the cells
Glyphs ==
  IF call.ret.kind = "string"
  THEN {call.ret.str[i] : i \in {j \in 1..Len(call.ret.str) : call.ret.str[j] # Newline}}
  ELSE IF call.ret.kind = "grid"
  THEN UNION {{call.ret.rows[y][x].char : x \in 1..Len(call.ret.rows[y])} :
                y \in 1..Len(call.ret.rows)}
  ELSE {}
\* the source is of the k-th of the uniform colours
SourceIsUniform(k) ==
  Source = UniformImage(Source.width[1], Source.height[1], k)
\* ((v - 128) * contrast) + 128 + brightness, times the contrast's denominator
ScaledAdjustment(v) ==
  (v - 128) * call.args.contrast[1] + (128 + call.args.brightness[1]) * call.args.contrast[2]

\* C13 as stated: a pure black source converted without inversion gives the
\* ramp's first character for every glyph, whatever the other options.
C13_BlackIsFirstCharacter ==
  (call.op = "convertToAscii" /\ SourceIsUniform(1)
     /\ call.args.colorScheme # "black-on-white") =>
    (call.ret.kind \in {"string", "grid"}
       /\ Glyphs \subseteq {ASCII_SETS[call.args.asciiSet][1]})

\* C13 amended: a pure black source converted without inversion gives the
\* ramp's first character for every glyph when contrast and brightness
\* leave luminance 0 at 0, that is ((0 - 128) * contrast) + 128 + brightness
\* <= 0, as with contrast 1 and brightness 0.
C13_BlackIsFirstCharacterUnlifted ==
  (call.op = "convertToAscii" /\ SourceIsUniform(1)
     /\ call.args.colorScheme # "black-on-white" /\ ScaledAdjustment(0) <= 0) =>
    (call.ret.kind \in {"string", "grid"}
       /\ Glyphs \subseteq {ASCII_SETS[call.args.asciiSet][1]})
C13_Witness ==
  /\ call.op = "convertToAscii" /\ SourceIsUniform(1)
  /\ Source.width = Num(2) /\ Source.height = Num(2)
  /\ call.args.colorScheme = "white-on-black"
  /\ call.args.asciiSet = "dense"
  /\ call.args.contrast = Num(1) /\ call.args.brightness = Num(0)
  /\ call.ret.kind = "string"
  /\ Glyphs = {Space}

\* C14 as stated: a pure white source converted with the scheme
\* black-on-white gives the ramp's first (darkest) character for every
\* glyph, whatever the other options.
C14_InvertedWhiteIsDarkest ==
  (call.op = "convertToAscii" /\ SourceIsUniform(2)
     /\ call.args.colorScheme = "black-on-white") =>
    (call.ret.kind \in {"string", "grid"}
       /\ Glyphs \subseteq {ASCII_SETS[call.args.asciiSet][1]})

\* C14 amended: a pure white source converted with the scheme black-on-white
\* gives the ramp's first character for every glyph when contrast and
\* brightness leave luminance 255 at 255, that is ((255 - 128) * contrast)
\* + 128 + brightness >= 255, as with contrast 1 and brightness 0.
C14_InvertedWhiteIsDarkestUndimmed ==
  (call.op = "convertToAscii" /\ SourceIsUniform(2)
     /\ call.args.colorScheme = "black-on-white"
     /\ ScaledAdjustment(255) >= 255 * call.args.contrast[2]) =>
    (call.ret.kind \in {"string", "grid"}
       /\ Glyphs \subseteq {ASCII_SETS[call.args.asciiSet][1]})
C14_Witness ==
  /\ call.op = "convertToAscii" /\ SourceIsUniform(2)
  /\ Source.width = Num(2) /\ Source.height = Num(2)
  /\ call.args.colorScheme = "black-on-white"
  /\ call.args.asciiSet = "smooth"
  /\ call.args.contrast = Num(1) /\ call.args.brightness = Num(0)
  /\ call.ret.kind = "grid"
  /\ Len(call.ret.rows) > 0
  /\ Glyphs = {Space}
\* four times the squared distance of the call's colour to the palette's
\* j-th entry (0-based), in integers: the channels are whole or half numbers
TwiceChannel(v) == (2 * v[1]) \div v[2]
ScaledSquaredDistance(j) ==
  LET entry == Palettes[call.args.palette][j + 1]
      dr == TwiceChannel(call.args.r) - 2 * entry[1]
      dg == TwiceChannel(call.args.g) - 2 * entry[2]
      db == TwiceChannel(call.args.b) - 2 * entry[3]
  IN dr * dr + dg * dg + db * db

\* C15: the index findClosestAnsiColor returns is an entry of the palette at
\* the minimum Euclidean distance to (r, g, b), and every entry before it is
\* strictly farther; (255, 0, 0) resolves to the pure red at index 9, at
\* distance 0, in the 16-colour palette and also in the 256-colour palette,
\* which holds that colour a second time at index 196.
C15_NearestFirstIndex ==
  (call.op = "findClosestAnsiColor") =>
    LET n == Len(Palettes[call.args.palette])
        i == call.ret.index
    IN /\ i \in 0..(n - 1)
       /\ \A j \in 0..(n - 1) : ScaledSquaredDistance(i) <= ScaledSquaredDistance(j)
       /\ \A j \in 0..(i - 1) : ScaledSquaredDistance(j) > ScaledSquaredDistance(i)
       /\ (call.args.r = Num(255) /\ call.args.g = Num(0) /\ call.args.b = Num(0)) =>
            (i = 9 /\ ScaledSquaredDistance(i) = 0)
C15_Witness ==
  /\ call.op = "findClosestAnsiColor"
  /\ call.args.palette = "ansi-256"
  /\ call.args.r = Num(255) /\ call.args.g = Num(0) /\ call.args.b = Num(0)
  /\ call.ret.index = 9
  /\ generateAnsi256Palette[196 + 1] = <<255, 0, 0>>
  /\ ScaledSquaredDistance(196) = 0
\* C16: in the coloured path a pixel of luminance 0 (black, or the near-black
\* (1, 0, 1)) has the brightness ratio 1 for every contrast and brightness:
\* the call returns a grid and every cell carries the pixel's R, G and B
\* unchanged.
C16_ZeroLuminanceRatioOne ==
  (call.op = "convertToAscii" /\ call.args.artStyle = "ansi" /\ call.args.useColors
     /\ (SourceIsUniform(1) \/ SourceIsUniform(5))) =>
    /\ call.ret.kind = "grid"
    /\ \A y \in 1..Len(call.ret.rows) : \A x \in 1..Len(call.ret.rows[y]) :
         call.ret.rows[y][x].rgb =
           <<Num(Source.data[1]), Num(Source.data[2]), Num(Source.data[3])>>
\* the weights of the taps of an error-diffusion algorithm, in the order of
\* the source
StmtWeights(stmts) == [i \in 1..Len(stmts) |-> Frac(stmts[i].mul, stmts[i].div)]
TapWeights(kernel) == [i \in 1..Len(kernel) |-> kernel[i].weight]
DiffusionWeights(algorithm) ==
  CASE algorithm \in {"floyd-steinberg", "floyd-steinberg-serpentine"} ->
         TapWeights(FloydSteinbergKernel)
    [] algorithm = "jarvis-judice-ninke" -> TapWeights(JarvisJudiceNinkeKernel)
    [] algorithm = "stucki" -> TapWeights(StuckiKernel)
    [] algorithm = "atkinson" -> StmtWeights(AtkinsonStmts)
    [] algorithm = "burkes" -> StmtWeights(BurkesStmts)
    [] algorithm = "sierra" -> StmtWeights(SierraStmts)
    [] algorithm = "sierra-lite" -> StmtWeights(SierraLiteStmts)
TapCount(algorithm) ==
  CASE algorithm \in {"floyd-steinberg", "floyd-steinberg-serpentine"} -> 4
    [] algorithm \in {"jarvis-judice-ninke", "stucki"} -> 12
    [] algorithm = "atkinson" -> 6
    [] algorithm = "burkes" -> 7
    [] algorithm = "sierra" -> 10
    [] algorithm = "sierra-lite" -> 3
RECURSIVE SumOf(_)
SumOf(weights) ==
  IF weights = <<>> THEN Num(0) ELSE NumAdd(weights[1], SumOf(Tail(weights)))

\* C17: the weights of the taps of the error-diffusion algorithm a call runs
\* sum to exactly 1, over 4, 12, 12, 7, 10 and 3 taps, except for atkinson,
\* whose 6 taps of 1/8 sum to 3/4.
C17_KernelWeightsSum ==
  (call.op = "applyDithering"
     /\ call.args.algorithm \in {"floyd-steinberg", "floyd-steinberg-serpentine",
                                 "jarvis-judice-ninke", "stucki", "atkinson", "burkes",
                                 "sierra", "sierra-lite"}) =>
    LET weights == DiffusionWeights(call.args.algorithm)
    IN /\ Len(weights) = TapCount(call.args.algorithm)
       /\ \A i \in 1..Len(weights) : NumGt(weights[i], Num(0))
       /\ SumOf(weights) = IF call.args.algorithm = "atkinson" THEN Frac(3, 4) ELSE Num(1)
       /\ call.args.algorithm = "atkinson" => \A i \in 1..6 : weights[i] = Frac(1, 8)
C17_Witness ==
  /\ call.op = "applyDithering"
  /\ call.args.algorithm = "atkinson"
  /\ call.args.strength = Num(1)
  /\ call.ret.kind = "buffer"
  /\ Returned.data # Source.data
  /\ SumOf(DiffusionWeights("stucki")) = Num(1)
\* the matrix of an ordered algorithm
OrderedMatrix(algorithm) ==
  CASE algorithm = "ordered-2x2" -> ORDERED_2X2
    [] algorithm = "ordered-4x4" -> ORDERED_4X4
    [] algorithm = "ordered-8x8" -> ORDERED_8X8

\* C18: where an ordered algorithm runs (strength not 0), the buffer returned
\* has the source's size and alpha, and each R, G, B value of the pixel
\* (x, y) is 255 if the source's value v exceeds
\* (matrix[y mod n][x mod n] / (n*n - 1)) * 255 * strength and 0 otherwise:
\* a function of v, x mod n, y mod n and the strength alone.
C18_OrderedThreshold ==
  (call.op = "applyDithering"
     /\ call.args.algorithm \in {"ordered-2x2", "ordered-4x4", "ordered-8x8"}
     /\ call.args.strength # Num(0)) =>
    LET matrix == OrderedMatrix(call.args.algorithm)
        n == Len(matrix)
        w == Source.width[1]
        sn == call.args.strength[1]
        sd == call.args.strength[2]
    IN /\ call.ret.kind = "buffer"
       /\ Returned.width = Source.width /\ Returned.height = Source.height
       /\ Len(Returned.data) = Len(Source.data)
       /\ \A k \in 0..(PixelCount(Source) - 1) :
            LET m == matrix[((k \div w) % n) + 1][((k % w) % n) + 1]
            IN /\ \A c \in 1..3 :
                    Returned.data[4 * k + c] =
                      IF Source.data[4 * k + c] * (n * n - 1) * sd > m * 255 * sn
                      THEN 255 ELSE 0
               /\ Returned.data[4 * k + 4] = Source.data[4 * k + 4]
\* the 10 x 10 mid-grey under ordered-8x8 at full strength: the pixels (1, 0)
\* and (9, 8) are congruent and both dark, the pixel (0, 0) is bright
C18_Witness ==
  /\ call.op = "applyDithering"
  /\ call.args.algorithm = "ordered-8x8"
  /\ call.args.strength = Num(1)
  /\ Source = UniformImage(10, 10, 3)
  /\ call.ret.kind = "buffer"
  /\ Returned.data[4 * 1 + 1] = 0
  /\ Returned.data[4 * (8 * 10 + 9) + 1] = 0
  /\ Returned.data[1] = 255
\* C19: getRecommendedDithering returns an algorithm for every input and
\* leaves the buffer alone: 'ansi' with colours gives none; 'ansi' without
\* gives none up to 5 characters and ordered-2x2 above; 'ascii' gives none
\* below 50 characters and floyd-steinberg-serpentine from 50 on, with or
\* without colours.
C19_RecommendedDithering ==
  (call.op = "getRecommendedDithering") =>
    LET n == call.args.characterCount[1]
        d == call.args.characterCount[2]
    IN /\ call.ret.kind = "algorithm"
       /\ heap = <<ImageOf(0, 0, <<>>)>>
       /\ call.ret.algorithm =
            IF call.args.artStyle = "ansi"
            THEN IF call.args.useColors THEN "none"
                 ELSE IF n <= 5 * d THEN "none" ELSE "ordered-2x2"
            ELSE IF n <= 10 * d \/ (10 * d < n /\ n < 50 * d) THEN "none"
                 ELSE "floyd-steinberg-serpentine"
       /\ (call.args.artStyle = "ascii" /\ n >= 50 * d) =>
            call.ret.algorithm = "floyd-steinberg-serpentine"
C19_Witness ==
  /\ call.op = "getRecommendedDithering"
  /\ call.args.artStyle = "ascii"
  /\ call.args.useColors
  /\ call.args.characterCount = Num(50)
  /\ call.ret.algorithm = "floyd-steinberg-serpentine"
  /\ getRecommendedDithering("ansi", Num(6), FALSE) = "ordered-2x2"
  /\ getRecommendedDithering("ascii", Num(49), FALSE) = "none"
\* C20: after applyDithering with an error-diffusion algorithm and a strength
\* in (0, 1], every R, G and B value of the buffer returned is 0 or 255.
C20_DiffusionOutputBinary ==
  (call.op = "applyDithering"
     /\ call.args.algorithm \in {"floyd-steinberg", "floyd-steinberg-serpentine",
                                 "jarvis-judice-ninke", "stucki", "atkinson", "burkes",
                                 "sierra", "sierra-lite"}
     /\ NumGt(call.args.strength, Num(0)) /\ NumLe(call.args.strength, Num(1))) =>
    /\ call.ret.kind = "buffer"
    /\ \A k \in 0..(PixelCount(Returned) - 1) : \A c \in 1..3 :
         Returned.data[4 * k + c] \in {0, 255}
(***************************************************************************)
(* The claims on the error-diffusing algorithms, on the pixel a running    *)
(* call has just left                                                      *)
(***************************************************************************)
\* a call of applyDithering is running and has processed a pixel
Stepped == call.op = "applyDithering" /\ call.ret.kind = "running" /\ call.ret.k >= 1

\* the array the running call writes, and the pixel (0-based, row by row) of
\* the coordinates (px, py)
NewData == heap[call.ret.ref].data
PixelIndex(px, py) == py * Source.width[1] + px
CurrentPixel == PixelIndex(call.ret.x, call.ret.y)

\* the place of pixel p in the scan order: row by row, left to right, but
\* right to left in the odd rows of the serpentine variant
ScanPlace(p) ==
  LET width == Source.width[1]
      py == p \div width
      px == p % width
  IN IF call.args.algorithm = "floyd-steinberg-serpentine" /\ py % 2 = 1
     THEN py * width + (width - 1 - px)
     ELSE p

\* the step changed channel c of pixel p
ChannelChanged(p, c) == NewData[4 * p + c + 1] # call.ret.before[4 * p + c + 1]

\* C21: in every error-diffusion algorithm, a pixel that receives error from
\* the pixel being processed has not been processed yet: it is not the
\* current pixel, which keeps the quantized value 0 or 255 it was given, and
\* it is not a pixel the scan visited earlier
C21_ErrorGoesForward ==
  (Stepped /\ call.args.algorithm # "adaptive-hybrid") =>
    /\ \A c \in 0..2 :
         Num(NewData[4 * CurrentPixel + c + 1])
           = Quantize(Num(call.ret.before[4 * CurrentPixel + c + 1]))
    /\ \A p \in 0..(PixelCount(Source) - 1) : \A c \in 0..2 :
         (p # CurrentPixel /\ ChannelChanged(p, c)) => ScanPlace(p) > call.ret.k - 1

\* the offsets (dx, dy) of an algorithm's taps, as the claims count them; the
\* three of adaptive-hybrid are those of its middle band
TapOffsets(algorithm) ==
  CASE algorithm \in {"floyd-steinberg", "floyd-steinberg-serpentine"} ->
         {<<t.dx, t.dy>> : t \in Range(FloydSteinbergKernel)}
    [] algorithm = "jarvis-judice-ninke" -> {<<t.dx, t.dy>> : t \in Range(JarvisJudiceNinkeKernel)}
    [] algorithm = "stucki" -> {<<t.dx, t.dy>> : t \in Range(StuckiKernel)}
    [] algorithm = "atkinson" -> {<<t.dx, t.dy>> : t \in Range(AtkinsonStmts)}
    [] algorithm = "burkes" -> {<<t.dx, t.dy>> : t \in Range(BurkesStmts)}
    [] algorithm = "sierra" -> {<<t.dx, t.dy>> : t \in Range(SierraStmts)}
    [] algorithm = "sierra-lite" -> {<<t.dx, t.dy>> : t \in Range(SierraLiteStmts)}
    [] algorithm = "adaptive-hybrid" -> {<<1, 0>>, <<-1, 1>>, <<0, 1>>}

\* the offsets as applied in the row of the current pixel: dx is negated in
\* the odd rows of the serpentine variant
AppliedOffsets ==
  IF call.args.algorithm = "floyd-steinberg-serpentine" /\ call.ret.y % 2 = 1
  THEN {<<-o[1], o[2]>> : o \in TapOffsets(call.args.algorithm)}
  ELSE TapOffsets(call.args.algorithm)

\* the pixels the taps of the current pixel point at inside the buffer
TapTargets ==
  {PixelIndex(call.ret.x + o[1], call.ret.y + o[2]) :
     o \in {o \in AppliedOffsets :
              /\ 0 <= call.ret.x + o[1] /\ call.ret.x + o[1] < Source.width[1]
              /\ 0 <= call.ret.y + o[2] /\ call.ret.y + o[2] < Source.height[1]}}

\* C22: in every error-diffusion algorithm and in adaptive-hybrid, processing
\* pixel (x, y) writes, besides that pixel, only pixels (x+dx, y+dy) of its
\* taps that lie inside the buffer: a tap that leaves the buffer is skipped,
\* nothing wraps to the opposite edge or into another row, alpha is left
\* alone and the array keeps its length
C22_TapsStayInBounds ==
  Stepped =>
    /\ Len(NewData) = Len(Source.data)
    /\ \A p \in 0..(PixelCount(Source) - 1) :
         /\ ~ChannelChanged(p, 3)
         /\ (\E c \in 0..2 : ChannelChanged(p, c)) => p \in TapTargets \cup {CurrentPixel}

\* a pixel at the right edge with a row below it was processed: its taps to
\* the right left the buffer, and a pixel below received error
C22_Witness ==
  /\ Stepped
  /\ Source.width[1] >= 3
  /\ call.ret.x = Source.width[1] - 1
  /\ call.ret.y + 1 < Source.height[1]
  /\ \E o \in AppliedOffsets : call.ret.x + o[1] >= Source.width[1]
  /\ \E c \in 0..2 : ChannelChanged(PixelIndex(call.ret.x, call.ret.y + 1), c)

\* what channel c of pixel p holds after the Floyd-Steinberg step of the
\* current pixel, when the taps are applied with the horizontal offsets
\* `mirrored` or not: the current pixel starts from its quantized value, and
\* a pixel a tap points at takes the error times the tap's weight, limited
\* to 0..255 and stored
FloydSteinbergStep(p, c, mirrored) ==
  LET oldPixel == Num(call.ret.before[4 * CurrentPixel + c + 1])
      error == NumMul(NumSub(oldPixel, Quantize(oldPixel)), call.args.strength)
      base == IF p = CurrentPixel THEN Quantize(oldPixel)
              ELSE Num(call.ret.before[4 * p + c + 1])
      hits == {t \in Range(FloydSteinbergKernel) :
                 LET nx == call.ret.x + (IF mirrored THEN -t.dx ELSE t.dx)
                     ny == call.ret.y + t.dy
                 IN /\ 0 <= nx /\ nx < Source.width[1]
                    /\ 0 <= ny /\ ny < Source.height[1]
                    /\ PixelIndex(nx, ny) = p}
  IN IF hits = {} THEN ToUint8Clamp(base)
     ELSE LET t == CHOOSE t \in hits : TRUE
          IN ToUint8Clamp(MathMax(Num(0), MathMin(Num(255),
               NumAdd(base, NumMul(error, t.weight)))))

\* C23: floyd-steinberg-serpentine takes the rows in increasing y, an even
\* row from x = 0 to width - 1 and an odd row from width - 1 to 0, every
\* pixel once, and in an odd row applies each tap with dx negated and dy
\* unchanged; floyd-steinberg applies the same kernel left to right in
\* every row
C23_SerpentineScan ==
  (Stepped /\ call.args.algorithm \in {"floyd-steinberg", "floyd-steinberg-serpentine"}) =>
    LET width == Source.width[1]
        odd == call.args.algorithm = "floyd-steinberg-serpentine" /\ call.ret.y % 2 = 1
    IN /\ call.ret.y = (call.ret.k - 1) \div width
       /\ call.ret.x = IF odd THEN width - 1 - ((call.ret.k - 1) % width)
                       ELSE (call.ret.k - 1) % width
       /\ \A p \in 0..(PixelCount(Source) - 1) : \A c \in 0..2 :
            NewData[4 * p + c + 1] = FloydSteinbergStep(p, c, odd)

\* the serpentine variant has processed a pixel inside an odd row with a row
\* below it, and what it left differs from what the unmirrored taps leave
C23_Witness ==
  /\ Stepped
  /\ call.args.algorithm = "floyd-steinberg-serpentine"
  /\ call.ret.y % 2 = 1
  /\ call.ret.y + 1 < Source.height[1]
  /\ 0 < call.ret.x /\ call.ret.x + 1 < Source.width[1]
  /\ call.ret.x = Source.width[1] - 1 - ((call.ret.k - 1) % Source.width[1])
  /\ \E c \in 0..2 :
       NewData[4 * PixelIndex(call.ret.x + 1, call.ret.y + 1) + c + 1]
         # FloydSteinbergStep(PixelIndex(call.ret.x + 1, call.ret.y + 1), c, FALSE)

\* the buffer that agrees with img on channel c and is 0 on the other three
KeepChannel(img, c) ==
  ImageData([i \in 1..Len(img.data) |-> IF (i - 1) % 4 = c THEN img.data[i] ELSE 0],
            img.width, img.height)

\* channel c of every pixel of a buffer
ChannelOf(img, c) == [p \in 1..PixelCount(img) |-> img.data[4 * (p - 1) + c + 1]]

\* what the call just made returns on the buffer img
DitheredAgain(img) ==
  LET out == applyDithering(<<img>>, 1, call.args, <<>>)
  IN out.heap[out.ret.ref]

ErrorDiffusion ==
  {"floyd-steinberg", "floyd-steinberg-serpentine", "jarvis-judice-ninke", "stucki",
   "atkinson", "burkes", "sierra", "sierra-lite"}

\* C24: every error-diffusion algorithm processes R, G and B independently:
\* channel c of the output is the same for all inputs of the same size that
\* agree on channel c, at every strength.  Stated against the input that
\* keeps channel c and is 0 elsewhere: two inputs that agree on c share it
C24_ChannelsIndependent ==
  (call.op = "applyDithering" /\ call.args.algorithm \in ErrorDiffusion
     /\ call.ret.kind = "buffer") =>
    \A c \in 0..2 :
      ChannelOf(Returned, c) = ChannelOf(DitheredAgain(KeepChannel(Source, c)), c)

\* a source of several pixels with unequal channels was dithered at full
\* strength, error reached a neighbour, and the input reduced to its red
\* channel gives another buffer with the same red channel
C24_Witness ==
  /\ call.op = "applyDithering" /\ call.args.algorithm \in ErrorDiffusion
  /\ call.args.strength = Num(1)
  /\ call.ret.kind = "buffer"
  /\ PixelCount(Source) >= 2
  /\ \E p \in 2..PixelCount(Source) :
       /\ Source.data[4 * (p - 1) + 1] # Source.data[4 * (p - 1) + 2]
       /\ Returned.data[4 * (p - 1) + 1] \notin {0, 255}
  /\ DitheredAgain(KeepChannel(Source, 0)) # Returned
  /\ ChannelOf(Returned, 0) = ChannelOf(DitheredAgain(KeepChannel(Source, 0)), 0)

\* R + G + B of pixel p of the source, three times its brightness
SourceSum(p) == Source.data[4 * p + 1] + Source.data[4 * p + 2] + Source.data[4 * p + 3]

\* three times the largest brightness difference between the pixel (x, y) of
\* the source and its neighbours inside the buffer (0 when it has none)
MaxNeighbourDiff(x, y) ==
  LET diffs == {Abs(SourceSum(PixelIndex(x, y)) - SourceSum(PixelIndex(nx, ny))) :
                  nx \in {n \in {x - 1, x, x + 1} : 0 <= n /\ n < Source.width[1]},
                  ny \in {n \in {y - 1, y, y + 1} : 0 <= n /\ n < Source.height[1]}}
  IN CHOOSE m \in diffs : \A d \in diffs : d <= m

\* the band of the current pixel: its local contrast is
\* MaxNeighbourDiff / (3 * 255), compared with 0.3 and 0.1
ContrastBand ==
  LET d == MaxNeighbourDiff(call.ret.x, call.ret.y)
  IN IF 10 * d > 3 * 765 THEN "high"
     ELSE IF 10 * d > 765 THEN "medium"
     ELSE IF 10 * d < 765 THEN "low" ELSE "edge"

\* C25: adaptive-hybrid takes each pixel's local contrast from the unmodified
\* input (largest brightness difference to the neighbours inside the buffer,
\* over 255) and then, per channel: above 0.3 the value is quantized at the
\* midpoint and no other pixel changes; between 0.1 and 0.3 it is quantized
\* at the midpoint and a part of error * strength * 0.7 goes to (x+1, y),
\* (x-1, y+1) and (x, y+1) and to no other pixel; below 0.1 it becomes 255
\* if it exceeds ((x % 4) * 4 + y % 4) / 16 * 255 * strength and 0 otherwise
C25_AdaptiveHybrid ==
  (Stepped /\ call.args.algorithm = "adaptive-hybrid") =>
    LET x == call.ret.x
        y == call.ret.y
        strength == call.args.strength
        old(p, c) == call.ret.before[4 * p + c + 1]
        new(p, c) == NewData[4 * p + c + 1]
        reduced(c) == NumMul(NumMul(NumSub(Num(old(CurrentPixel, c)),
                                           Quantize(Num(old(CurrentPixel, c)))),
                                    strength), Frac(7, 10))
        targets == {PixelIndex(x + o[1], y + o[2]) :
                      o \in {o \in {<<1, 0>>, <<-1, 1>>, <<0, 1>>} :
                               /\ 0 <= x + o[1] /\ x + o[1] < Source.width[1]
                               /\ y + o[2] < Source.height[1]}}
        others == (0..(PixelCount(Source) - 1)) \ {CurrentPixel}
    IN \A c \in 0..2 :
         /\ ContrastBand = "high" =>
              /\ Num(new(CurrentPixel, c)) = Quantize(Num(old(CurrentPixel, c)))
              /\ \A p \in others : new(p, c) = old(p, c)
         /\ ContrastBand = "medium" =>
              /\ Num(new(CurrentPixel, c)) = Quantize(Num(old(CurrentPixel, c)))
              /\ \A p \in others \ targets : new(p, c) = old(p, c)
              /\ \A p \in targets :
                   /\ (new(p, c) - old(p, c)) * Sign(reduced(c)) >= 0
                   /\ NumLe(Num(2 * Abs(new(p, c) - old(p, c)) - 1),
                            NumMul(Num(2), MathAbs(reduced(c))))
         /\ ContrastBand = "low" =>
              /\ new(CurrentPixel, c)
                   = IF old(CurrentPixel, c) * 16 * strength[2]
                          > ((x % 4) * 4 + (y % 4)) * 255 * strength[1]
                     THEN 255 ELSE 0
              /\ \A p \in others : new(p, c) = old(p, c)

\* a pixel of the middle band with all three neighbours inside the buffer was
\* processed and each of them received error, after pixels of the low band;
\* a pixel of the high band lies to its right
C25_Witness ==
  /\ Stepped /\ call.args.algorithm = "adaptive-hybrid"
  /\ ContrastBand = "medium"
  /\ call.ret.x = 1 /\ call.ret.y = 0 /\ Source.width[1] = 8 /\ Source.height[1] = 2
  /\ 10 * MaxNeighbourDiff(0, 0) < 765
  /\ 10 * MaxNeighbourDiff(2, 0) > 3 * 765
  /\ \A p \in {PixelIndex(2, 0), PixelIndex(0, 1), PixelIndex(1, 1)} :
       \E c \in 0..2 : ChannelChanged(p, c)

(***************************************************************************)
(* The claims on the page                                                  *)
(***************************************************************************)
\* C26: the page resamples the source to the character grid first and
\* applies the dithering algorithm to the resampled buffer, never to the
\* full-resolution source: the buffer dithered has the grid's dimensions,
\* and the art is that of resample, dither, tone map and glyph selection in
\* this order
C26_DitherAfterResample ==
  (call.op = "ascii" /\ call.ret.dithered # 0) =>
    LET dimensions == calculateDimensions(Source.width, Source.height, call.args.width,
                        call.args.maintainAspectRatio, call.args.charAspectRatio)
        resampled == resizeImageData(<<Source>>, 1, dimensions.width, dimensions.height)
        dithered == applyDithering(resampled.heap, resampled.ret.ref,
                      [algorithm |-> call.args.ditheringAlgorithm,
                       strength |-> call.args.ditheringStrength], <<>>)
    IN /\ heap[call.ret.dithered].width = dimensions.width
       /\ heap[call.ret.dithered].height = dimensions.height
       /\ call.ret.ascii = convertToAscii(dithered.heap, dithered.ret.ref, call.args).ret

(***************************************************************************)
(* The claims on the coloured path                                         *)
(***************************************************************************)
\* the cells of the grid the conversion returned
Cells ==
  IF call.op = "convertToAscii" /\ call.ret.kind = "grid"
  THEN UNION {{call.ret.rows[y][x] : x \in 1..Len(call.ret.rows[y])} :
                y \in 1..Len(call.ret.rows)}
  ELSE {}

\* i is an index of the palette entry nearest to the colour rgb
IsNearest(i, rgb) ==
  LET palette == Palettes[call.args.colorPalette]
  IN /\ i \in 0..(Len(palette) - 1)
     /\ \A j \in 1..Len(palette) :
          NumLe(SquaredDistance(rgb[1], rgb[2], rgb[3], palette[i + 1]),
                SquaredDistance(rgb[1], rgb[2], rgb[3], palette[j]))

\* the character of the selected ramp for the luminance of the colour rgb
RampChar(rgb) ==
  brightnessToAscii(getPixelBrightness(rgb[1], rgb[2], rgb[3]),
                    LookupAsciiSet(call.args.asciiSet),
                    call.args.colorScheme = "black-on-white")

\* C27: in the coloured path a cell whose adjusted R, G, B have a mean below
\* 128 has fgColor 0, the nearest palette index as bgColor, and the
\* character ' ' if the ramp's character for its luminance is a space and
\* the block glyph otherwise; a cell whose mean is 128 or more has the
\* ramp's character, the nearest palette index as fgColor and no bgColor
C27_DarkAndBrightCells ==
  \A cell \in Cells :
    LET mean == NumDiv(NumAdd(NumAdd(cell.rgb[1], cell.rgb[2]), cell.rgb[3]), Num(3))
    IN /\ NumLt(mean, Num(128)) =>
            /\ cell.fgColor = 0
            /\ IsNearest(cell.bgColor, cell.rgb)
            /\ cell.char = IF RampChar(cell.rgb) = Space THEN Space ELSE BlockGlyph
       /\ NumGe(mean, Num(128)) =>
            /\ cell.char = RampChar(cell.rgb)
            /\ IsNearest(cell.fgColor, cell.rgb)
            /\ cell.bgColor = NoColor

\* a grid with a cell of mean exactly 128, which is bright and carries a
\* ramp character in the nearest colour
C27_Witness ==
  \E cell \in Cells :
    /\ cell.rgb = <<Num(128), Num(128), Num(128)>>
    /\ cell.bgColor = NoColor
    /\ cell.fgColor # 0
    /\ cell.char = RampChar(cell.rgb)
    /\ cell.char \notin {Space, BlockGlyph}

\* the luminance of the pixels of a source of one colour
SourceLuminance ==
  getPixelBrightness(Num(Source.data[1]), Num(Source.data[2]), Num(Source.data[3]))

\* clamp(channel * (adjustBrightness(L, contrast, brightness) / L), 0, 255)
ScaledChannel(channel) ==
  LET adjusted == adjustBrightness(SourceLuminance, call.args.contrast,
                                   call.args.brightness)
  IN MathMax(Num(0), MathMin(Num(255),
       NumMul(Num(channel), NumDiv(adjusted, SourceLuminance))))

\* C28: in the coloured path, for a source of one colour whose luminance L
\* is not 0, every cell carries the R, G and B values
\* clamp(channel * (adjustBrightness(L, contrast, brightness) / L), 0, 255),
\* also when the adjusted luminance is clamped to 0
C28_ScaledByLuminanceRatio ==
  (call.op = "convertToAscii" /\ IsColoured(call.args.artStyle, call.args.useColors)
     /\ (\E k \in 1..Len(UniformColours) : SourceIsUniform(k))
     /\ SourceLuminance # Num(0)) =>
    \A cell \in Cells :
      cell.rgb = <<ScaledChannel(Source.data[1]), ScaledChannel(Source.data[2]),
                   ScaledChannel(Source.data[3])>>

\* C29: every cell of a grid returned by the coloured path carries a
\* character of the selected ramp or the block glyph, whatever the pixel
\* values, the contrast and the brightness
C29_CellHasRampOrBlockChar ==
  (call.op = "convertToAscii" /\ IsColoured(call.args.artStyle, call.args.useColors)) =>
    \A cell \in Cells :
      cell.char \in Range(LookupAsciiSet(call.args.asciiSet)) \cup {BlockGlyph}

\* the block/ANSI sets of the panel's charset filter; the others are the
\* ASCII sets
IsAnsiSet(key) ==
  key \in {"blocks", "ansi-safe", "ansi-half", "ansi-simple", "ansi-classic",
           "ansi-minimal"}

\* C30: from the page's initial options and after any sequence of changes in
\* the control panel, the style 'ansi' goes with useColors, the dithering
\* algorithm 'none' and a block/ANSI set, and the style 'ascii' with an ASCII
\* set; the page never calls applyDithering when the style is 'ansi'
C30_OptionsConsistent ==
  /\ pageOptions.artStyle \in {"ascii", "ansi"}
  /\ pageOptions.asciiSet \in DOMAIN ASCII_SETS
  /\ pageOptions.artStyle = "ansi" =>
       /\ pageOptions.useColors
       /\ pageOptions.ditheringAlgorithm = "none"
       /\ IsAnsiSet(pageOptions.asciiSet)
  /\ pageOptions.artStyle = "ascii" => ~IsAnsiSet(pageOptions.asciiSet)
  /\ (call.op = "ascii" /\ call.args.artStyle = "ansi") => call.ret.dithered = 0

\* the art of a loaded image in the style 'ansi', with a set and a palette
\* chosen after the style, once dithering had been switched on and the
\* source dithered in the style 'ascii'
C30_Witness ==
  /\ call.op = "ascii"
  /\ call.args = pageOptions
  /\ pageOptions.artStyle = "ansi"
  /\ pageOptions.asciiSet = "ansi-half"
  /\ pageOptions.colorPalette = "ansi-256"
  /\ pageOptions.ditheringStrength = Num(0)
  /\ call.ret.dithered = 0
  /\ call.ret.ascii.kind = "grid"
  /\ Len(call.ret.ascii.rows) = 2
====
